---- MODULE Spec2Model ----
(***************************************************************************)
(* Model of the snapcall equity solver.                                    *)
(*                                                                         *)
(* Two solvers of the core crate are modelled side by side:                *)
(*   - estimate_equity (estimate.rs, enumeration.rs, monte_carlo.rs),      *)
(*     called api "estimate" below;                                        *)
(*   - calculate_equity_with_math (equity.rs), called api "calculate".     *)
(*                                                                         *)
(* The deck, the board and the iteration budgets are scaled down: the deck *)
(* has DeckSize cards instead of 52, a full board has BoardSize cards      *)
(* instead of 5 and a flop FlopSize cards instead of 3.  A hand is a       *)
(* sequence of two cards, a card is its index in the fixed deck order.     *)
(* Percentages are exact rationals <<n, d>>.                               *)
(*                                                                         *)
(* The typed entry point calculate_equity of lib.rs, which the bindings    *)
(* call with parsed cards, is api "hands".                                 *)
(*                                                                         *)
(* Spec draws the player descriptors already split into card tokens or     *)
(* expanded into the hands of a range.  ParseSpec models the step before   *)
(* that for calculate_equity_with_math: parse_player_hand_input applied to *)
(* a descriptor written as text (api "parse", players holds the one text). *)
(***************************************************************************)
EXTENDS Integers, Sequences, FiniteSets, TLC

(* ------------------------------ bounds -------------------------------- *)
DeckSize == 9
NumSuits == 2
BoardSize == 3
FlopSize == 2
WordBits == 20
MaxDealt == 3
MaxMCIterations == 2
MaxTextLen == 6
MaxSliceArranged == 3
MaxSliceLen == 7
MaxBinomialN == 70

(* ------------------------- program constants -------------------------- *)
DefaultIterations == 10000
FullDeck == 52

UsizeMax == 2^WordBits - 1

VARIABLES
    api,        \* which entry point was called
    board,      \* board cards of the call (sequence of cards)
    players,    \* per-player descriptors of the call, as classified by token count
    specs,      \* the parsed, validated (and filtered) per-player specs
    iterations, \* iteration budget argument
    pc,         \* position of the call: "call", "exact", "mc", "evaluate", "done"
    path,       \* "ranges" or "dynamic" (calculate), "estimate", "hands"
    budget,     \* iterations handed to the Monte Carlo engine
    count,      \* valid_assignment_count of the mode selector (calculate)
    iter,       \* Monte Carlo iterations started so far
    wins,       \* per-player win counters of the running engine
    totals,     \* per-player sums of per-tuple / per-sample equity vectors
    samples,    \* valid-sample counter of the running engine
    deals,      \* deals evaluated: all of them (exact), the current one (Monte Carlo)
    tupleWins,  \* exact engine: win counters of each enumerated tuple, in order
    evaluated,  \* history: number of deals evaluated by the call so far
    chop,       \* history: per player, the sum over evaluated deals of its 1/k share
    result      \* the value returned by the call

vars == <<api, board, players, specs, iterations, pc, path, budget, count, iter, wins,
          totals, samples, deals, tupleWins, evaluated, chop, result>>

(* ------------------------------ helpers ------------------------------- *)
Min(a, b) == IF a < b THEN a ELSE b
Max(a, b) == IF a > b THEN a ELSE b

SeqToSet(s) == {s[i] : i \in 1..Len(s)}

\* Sums and concatenations split their argument in halves, so that the depth
\* of the evaluation grows with the logarithm of the length.
RECURSIVE SumSeq(_)
SumSeq(s) ==
    IF Len(s) = 0 THEN 0
    ELSE IF Len(s) = 1 THEN s[1]
    ELSE SumSeq(SubSeq(s, 1, Len(s) \div 2)) + SumSeq(SubSeq(s, Len(s) \div 2 + 1, Len(s)))

RECURSIVE Flatten(_)
Flatten(ss) ==
    IF Len(ss) = 0 THEN <<>>
    ELSE IF Len(ss) = 1 THEN ss[1]
    ELSE Flatten(SubSeq(ss, 1, Len(ss) \div 2))
         \o Flatten(SubSeq(ss, Len(ss) \div 2 + 1, Len(ss)))

SetMax(S) == IF S = {} THEN -1
             ELSE LET x == CHOOSE y \in S : \A z \in S : z <= y IN x

RECURSIVE GCD(_, _)
GCD(a, b) == IF b = 0 THEN a ELSE GCD(b, a % b)

(* Exact rationals standing for the f64 percentages. *)
Rat(n, d) == LET g == GCD(n, d) IN IF g = 0 THEN <<0, 1>> ELSE <<n \div g, d \div g>>
RatAdd(a, b) == LET g == GCD(a[2], b[2])
                IN Rat(a[1] * (b[2] \div g) + b[1] * (a[2] \div g), (a[2] \div g) * b[2])
RatDivInt(a, k) == Rat(a[1], a[2] * k)
RatLeq(a, b) == a[1] * b[2] <= b[1] * a[2]
RECURSIVE RatSum(_)
RatSum(s) ==
    IF Len(s) = 0 THEN <<0, 1>>
    ELSE IF Len(s) = 1 THEN s[1]
    ELSE LET lo == RatSum(SubSeq(s, 1, Len(s) \div 2))
             hi == RatSum(SubSeq(s, Len(s) \div 2 + 1, Len(s)))
         IN RatAdd(lo, hi)
VecAdd(u, v) == <<>> \o [i \in 1..Len(u) |-> RatAdd(u[i], v[i])]

(* ------------------------- cards, deck, rank -------------------------- *)
Cards == 1..DeckSize

\* all_cards(): the deck in its fixed order; a card is its position in it.
all_cards == [i \in 1..DeckSize |-> i]

\* Value of a card: the deck lists the highest value first, NumSuits cards each.
CardValue(c) == (DeckSize - c) \div NumSuits

HandCards(h) == {h[1], h[2]}

\* Rank of a player's cards (hole cards plus full board).  The evaluator is an
\* opaque total order; this stand-in orders by the largest group of equal
\* values, then that group's value, then the highest card.
Rank(S) ==
    LET vals == {CardValue(c) : c \in S}
        mult(v) == Cardinality({c \in S : CardValue(c) = v})
        best == SetMax({mult(v) : v \in vals})
        bestVal == SetMax({v \in vals : mult(v) = best})
    IN (best * (DeckSize + 1) + bestVal) * (DeckSize + 1) + SetMax(vals)

\* Indices of the players whose rank ties the maximum in one deal.
Winners(hands, full_board) ==
    LET ranks == <<>> \o [i \in 1..Len(hands) |->
                     Rank(HandCards(hands[i]) \cup SeqToSet(full_board))]
        best == SetMax({ranks[i] : i \in 1..Len(hands)})
    IN {i \in 1..Len(hands) : ranks[i] = best}

\* A credit that goes to a single best hand only and to nobody when the
\* best rank is shared (used to probe C29).
CreditSoleWinner(hands, full_board) ==
    LET w == Winners(hands, full_board)
    IN [i \in 1..Len(hands) |-> IF i \in w /\ Cardinality(w) = 1 THEN 1 ELSE 0]

\* One deal's credit: one unit for every player tying the maximum.
Credit(hands, full_board) ==
    LET w == Winners(hands, full_board)
    IN [i \in 1..Len(hands) |-> IF i \in w THEN 1 ELSE 0]

(* --------------------------- combinatorics ---------------------------- *)
\* combination_count (combinatorics.rs): u128 accumulator clamped to usize::MAX.
RECURSIVE CombinationLoop(_, _, _, _)
CombinationLoop(n, k, i, acc) ==
    IF i >= k THEN acc
    ELSE LET next == (acc * (n - i)) \div (i + 1)
         IN IF next > UsizeMax THEN UsizeMax ELSE CombinationLoop(n, k, i + 1, next)

combination_count(n, k) ==
    IF k > n THEN 0
    ELSE IF k = 0 \/ k = n THEN 1
    ELSE CombinationLoop(n, Min(k, n - k), 0, 1)

\* n_choose_k (enumeration.rs): usize accumulator, saturating multiplication.
SaturatingMul(a, b) == IF b # 0 /\ a > UsizeMax \div b THEN UsizeMax ELSE a * b

RECURSIVE ChooseLoop(_, _, _, _)
ChooseLoop(n, k, i, acc) ==
    IF i >= k THEN acc
    ELSE ChooseLoop(n, k, i + 1, SaturatingMul(acc, n - i) \div (i + 1))

n_choose_k(n, k) ==
    IF k > n THEN 0
    ELSE IF k = 0 \/ k = n THEN 1
    ELSE ChooseLoop(n, Min(k, n - k), 0, 1)

\* A budget taken as given, zero included (used to probe C3).
default_iterations_as_given(n) == n

\* default_iterations: 0 means the default budget.
default_iterations(n) == IF n = 0 THEN DefaultIterations ELSE n

\* A recursion that starts again at the card it has just taken (used to
\* probe C27).
RECURSIVE CombosFromSameStart(_, _, _)
CombosFromSameStart(cards, k, start) ==
    IF k = 0 THEN << <<>> >>
    ELSE IF start + k - 1 > Len(cards) THEN <<>>
    ELSE LET with == CombosFromSameStart(cards, k - 1, start)
         IN [j \in 1..Len(with) |-> <<cards[start]>> \o with[j]]
            \o CombosFromSameStart(cards, k, start + 1)

\* for_each_combination: the k-combinations of a sequence, in the order the
\* callback sees them (lexicographic in positions); none when k > len, the
\* empty one when k = 0.
RECURSIVE CombosFrom(_, _, _)
CombosFrom(cards, k, start) ==
    IF k = 0 THEN << <<>> >>
    ELSE IF start + k - 1 > Len(cards) THEN <<>>
    ELSE LET with == CombosFrom(cards, k - 1, start + 1)
         IN [j \in 1..Len(with) |-> <<cards[start]>> \o with[j]]
            \o CombosFrom(cards, k, start + 1)

for_each_combination(cards, k) ==
    IF k > Len(cards) THEN <<>> ELSE CombosFrom(cards, k, 1)

\* A deck whose order depends on when it is read: reversed while an exact
\* engine runs (used to probe C15).
DeckWithoutAsFound(used) ==
    LET in_order == SelectSeq(all_cards, LAMBDA c : c \notin used)
    IN IF pc = "exact"
       THEN [i \in 1..Len(in_order) |-> in_order[Len(in_order) + 1 - i]]
       ELSE in_order

\* The deck without a set of cards, in deck order.
DeckWithout(used) == SelectSeq(all_cards, LAMBDA c : c \notin used)

(* ----------------------- player specs (parsed) ------------------------ *)
\* PlayerInputSpec / HoleCardsInput: Exact([c1, c2]), Partial(c) (OneKnown),
\* Unknown (RandomTwo), Range(hands).
ExactSpec(h) == [kind |-> "Exact", cards |-> h, range |-> <<>>]
PartialSpec(c) == [kind |-> "Partial", cards |-> <<c>>, range |-> <<>>]
UnknownSpec == [kind |-> "Unknown", cards |-> <<>>, range |-> <<>>]
RangeSpec(hs) == [kind |-> "Range", cards |-> <<>>, range |-> hs]

\* A collision test that looks at the first card only (used to probe C1).
FreeFirstCardOnly(h, used) == h[1] \notin used

Free(h, used) == h[1] \notin used /\ h[2] \notin used

\* A loop body that walks a range from its last hand to its first (used to
\* probe C22).
CandidatesRangeBackwards(spec, used) ==
    LET free == SelectSeq(spec.range, LAMBDA h : Free(h, used))
    IN IF spec.kind = "Range"
       THEN [k \in 1..Len(free) |-> free[Len(free) + 1 - k]]
       ELSE IF spec.kind = "Exact"
       THEN IF Free(spec.cards, used) THEN <<spec.cards>> ELSE <<>>
       ELSE IF spec.kind = "Partial"
       THEN IF spec.cards[1] \in used THEN <<>>
            ELSE LET rest == SelectSeq(all_cards,
                                       LAMBDA c : c \notin used \cup {spec.cards[1]})
                 IN [j \in 1..Len(rest) |-> <<spec.cards[1], rest[j]>>]
       ELSE CombosFrom(SelectSeq(all_cards, LAMBDA c : c \notin used), 2, 1)

\* The hands one player's loop body accepts, in loop order, when the recursion
\* is entered with the card set `used` (the set is restored after every
\* candidate, so the candidates depend on the entry set alone).
Candidates(spec, used) ==
    CASE spec.kind = "Exact" ->
             IF Free(spec.cards, used) THEN <<spec.cards>> ELSE <<>>
      [] spec.kind = "Range" ->
             SelectSeq(spec.range, LAMBDA h : Free(h, used))
      [] spec.kind = "Partial" ->
             IF spec.cards[1] \in used THEN <<>>
             ELSE LET rest == DeckWithout(used \cup {spec.cards[1]})
                  IN [j \in 1..Len(rest) |-> <<spec.cards[1], rest[j]>>]
      [] OTHER -> CombosFrom(DeckWithout(used), 2, 1)

\* for_each_valid_assignment_for_specs: the tuples handed to the callback, in order.
\* The tuples the callback sees, in order: the loop over one player's
\* candidates, each followed by the recursion into the next player.
RECURSIVE EnumRecurse(_, _, _, _)
EnumRecurse(idx, player_specs, used_cards, selected_hands) ==
    IF idx > Len(player_specs) THEN <<selected_hands>>
    ELSE LET cands == Candidates(player_specs[idx], used_cards)
         IN Flatten(<<>> \o [k \in 1..Len(cands) |->
                EnumRecurse(idx + 1, player_specs, used_cards \cup HandCards(cands[k]),
                            Append(selected_hands, cands[k]))])

for_each_valid_assignment_for_specs(player_specs, board_cards) ==
    EnumRecurse(1, player_specs, SeqToSet(board_cards), <<>>)

\* A count that walks the whole search whatever the bound (used to probe C21).
count_every_assignment_for_specs(player_specs, board_cards, max_exclusive) ==
    Len(for_each_valid_assignment_for_specs(player_specs, board_cards))

\* count_valid_assignments_for_specs: <<count, reached>> of the recursion; the
\* search stops as soon as a leaf makes the counter reach max_exclusive.
RECURSIVE CountRecurse(_, _, _, _, _), CountLoop(_, _, _, _, _, _, _)
CountRecurse(idx, player_specs, used_cards, cnt, max_exclusive) ==
    IF idx > Len(player_specs) THEN <<cnt + 1, cnt + 1 >= max_exclusive>>
    ELSE CountLoop(Candidates(player_specs[idx], used_cards), 1, idx, player_specs,
                   used_cards, cnt, max_exclusive)
CountLoop(cands, k, idx, player_specs, used_cards, cnt, max_exclusive) ==
    IF k > Len(cands) THEN <<cnt, FALSE>>
    ELSE LET r == CountRecurse(idx + 1, player_specs,
                               used_cards \cup HandCards(cands[k]), cnt, max_exclusive)
         IN IF r[2] THEN r
            ELSE CountLoop(cands, k + 1, idx, player_specs, used_cards, r[1],
                           max_exclusive)

count_valid_assignments_for_specs(player_specs, board_cards, max_exclusive) ==
    CountRecurse(1, player_specs, SeqToSet(board_cards), 0, max_exclusive)[1]

\* The range-only twins: every player is a list of hands (an Exact player is
\* the one-hand list).
player_ranges_of(player_specs) ==
    [i \in 1..Len(player_specs) |->
        IF player_specs[i].kind = "Exact" THEN <<player_specs[i].cards>>
        ELSE player_specs[i].range]

RECURSIVE RangeEnumRecurse(_, _, _, _)
RangeEnumRecurse(idx, player_ranges, used_cards, selected_hands) ==
    IF idx > Len(player_ranges) THEN <<selected_hands>>
    ELSE Flatten(<<>> \o [k \in 1..Len(player_ranges[idx]) |->
             LET hand == player_ranges[idx][k]
             IN IF Free(hand, used_cards)
                THEN RangeEnumRecurse(idx + 1, player_ranges,
                                      used_cards \cup HandCards(hand),
                                      Append(selected_hands, hand))
                ELSE <<>>])

for_each_valid_range_assignment(player_ranges, board_cards) ==
    RangeEnumRecurse(1, player_ranges, SeqToSet(board_cards), <<>>)

RECURSIVE RangeCountRecurse(_, _, _, _, _), RangeCountLoop(_, _, _, _, _, _)
RangeCountRecurse(idx, player_ranges, used_cards, cnt, max_exclusive) ==
    IF idx > Len(player_ranges) THEN <<cnt + 1, cnt + 1 >= max_exclusive>>
    ELSE RangeCountLoop(1, idx, player_ranges, used_cards, cnt, max_exclusive)
RangeCountLoop(k, idx, player_ranges, used_cards, cnt, max_exclusive) ==
    IF k > Len(player_ranges[idx]) THEN <<cnt, FALSE>>
    ELSE LET hand == player_ranges[idx][k]
         IN IF ~Free(hand, used_cards)
            THEN RangeCountLoop(k + 1, idx, player_ranges, used_cards, cnt,
                                max_exclusive)
            ELSE LET r == RangeCountRecurse(idx + 1, player_ranges,
                                           used_cards \cup HandCards(hand), cnt,
                                           max_exclusive)
                 IN IF r[2] THEN r
                    ELSE RangeCountLoop(k + 1, idx, player_ranges, used_cards, r[1],
                                        max_exclusive)

count_valid_range_assignments(player_ranges, board_cards, max_exclusive) ==
    RangeCountRecurse(1, player_ranges, SeqToSet(board_cards), 0, max_exclusive)[1]

(* ------------- the backtracking searches, step by step ---------------- *)
\* The recursions of count_valid_assignments_for_specs and of
\* for_each_valid_assignment_for_specs with the one used_cards set they share
\* between frames: every insert and remove of the source is applied to the
\* set the callee hands back.  `sel` shadows selected_hands in the count
\* (which keeps none), `entered` is the conjunction, over the frames entered
\* so far, of EntryHolds.
HashInsert(set, c) == set \cup {c}
HashRemove(set, c) == set \ {c}

\* used_cards is the board plus the cards of the idx hands selected so far.
EntryHolds(idx, used_cards, sel, board_set) ==
    /\ Len(sel) = idx
    /\ used_cards = board_set \cup UNION {HandCards(sel[i]) : i \in 1..Len(sel)}
    /\ Cardinality(used_cards) = Cardinality(board_set) + 2 * idx

CountFrame(u, c, r, e) == [used |-> u, count |-> c, reached |-> r, entered |-> e]

\* A Range loop that returns at once when the recursion reports the bound
\* reached, leaving the hand in the set (used to probe C23).
RECURSIVE count_recurse(_, _, _, _, _, _, _)
RECURSIVE count_range_loop_early_return(_, _, _, _, _, _, _, _, _)
count_range_loop_early_return(k, idx, player_specs, used_cards, cnt, max_exclusive, sel, board_set, entered) ==
    LET hands == player_specs[idx + 1].range
    IN IF k > Len(hands) THEN CountFrame(used_cards, cnt, FALSE, entered)
       ELSE IF hands[k][1] \in used_cards \/ hands[k][2] \in used_cards
       THEN count_range_loop_early_return(k + 1, idx, player_specs, used_cards, cnt,
                                          max_exclusive, sel, board_set, entered)
       ELSE LET r == count_recurse(idx + 1, player_specs,
                                   HashInsert(HashInsert(used_cards, hands[k][1]),
                                              hands[k][2]),
                                   cnt, max_exclusive, Append(sel, hands[k]), board_set)
            IN IF r.reached
               THEN CountFrame(r.used, r.count, TRUE, entered /\ r.entered)
               ELSE count_range_loop_early_return(
                        k + 1, idx, player_specs,
                        HashRemove(HashRemove(r.used, hands[k][1]), hands[k][2]),
                        r.count, max_exclusive, sel, board_set, entered /\ r.entered)

\* for hand in hands { ... } of the Range arm.
RECURSIVE count_range_loop(_, _, _, _, _, _, _, _, _)
count_range_loop(k, idx, player_specs, used_cards, cnt, max_exclusive, sel, board_set, entered) ==
    LET hands == player_specs[idx + 1].range
    IN IF k > Len(hands) THEN CountFrame(used_cards, cnt, FALSE, entered)
       ELSE IF hands[k][1] \in used_cards \/ hands[k][2] \in used_cards
       THEN count_range_loop(k + 1, idx, player_specs, used_cards, cnt, max_exclusive,
                             sel, board_set, entered)
       ELSE LET r == count_recurse(idx + 1, player_specs,
                                   HashInsert(HashInsert(used_cards, hands[k][1]),
                                              hands[k][2]),
                                   cnt, max_exclusive, Append(sel, hands[k]), board_set)
                after == HashRemove(HashRemove(r.used, hands[k][1]), hands[k][2])
            IN IF r.reached THEN CountFrame(after, r.count, TRUE, entered /\ r.entered)
               ELSE count_range_loop(k + 1, idx, player_specs, after, r.count,
                                     max_exclusive, sel, board_set, entered /\ r.entered)

\* for second in deck { ... } of the OneKnown arm; `known` is in the set.
RECURSIVE count_second_loop(_, _, _, _, _, _, _, _, _, _)
count_second_loop(k, known, idx, player_specs, used_cards, cnt, max_exclusive, sel, board_set, entered) ==
    IF k > DeckSize THEN CountFrame(used_cards, cnt, FALSE, entered)
    ELSE IF all_cards[k] = known \/ all_cards[k] \in used_cards
    THEN count_second_loop(k + 1, known, idx, player_specs, used_cards, cnt,
                           max_exclusive, sel, board_set, entered)
    ELSE LET r == count_recurse(idx + 1, player_specs,
                                HashInsert(used_cards, all_cards[k]), cnt, max_exclusive,
                                Append(sel, <<known, all_cards[k]>>), board_set)
             after == HashRemove(r.used, all_cards[k])
         IN IF r.reached THEN CountFrame(after, r.count, TRUE, entered /\ r.entered)
            ELSE count_second_loop(k + 1, known, idx, player_specs, after, r.count,
                                   max_exclusive, sel, board_set, entered /\ r.entered)

\* for c2 in deck.iter().skip(i + 1) { ... } of the RandomTwo arm; deck[i]
\* is in the set.
RECURSIVE count_pair_loop(_, _, _, _, _, _, _, _, _, _)
count_pair_loop(j, i, idx, player_specs, used_cards, cnt, max_exclusive, sel, board_set, entered) ==
    IF j > DeckSize THEN CountFrame(used_cards, cnt, FALSE, entered)
    ELSE IF all_cards[j] \in used_cards
    THEN count_pair_loop(j + 1, i, idx, player_specs, used_cards, cnt, max_exclusive,
                         sel, board_set, entered)
    ELSE LET r == count_recurse(idx + 1, player_specs,
                                HashInsert(used_cards, all_cards[j]), cnt, max_exclusive,
                                Append(sel, <<all_cards[i], all_cards[j]>>), board_set)
             after == HashRemove(r.used, all_cards[j])
         IN IF r.reached THEN CountFrame(after, r.count, TRUE, entered /\ r.entered)
            ELSE count_pair_loop(j + 1, i, idx, player_specs, after, r.count,
                                 max_exclusive, sel, board_set, entered /\ r.entered)

\* for i in 0..deck.len() { ... } of the RandomTwo arm.
RECURSIVE count_first_loop(_, _, _, _, _, _, _, _, _)
count_first_loop(i, idx, player_specs, used_cards, cnt, max_exclusive, sel, board_set, entered) ==
    IF i > DeckSize THEN CountFrame(used_cards, cnt, FALSE, entered)
    ELSE IF all_cards[i] \in used_cards
    THEN count_first_loop(i + 1, idx, player_specs, used_cards, cnt, max_exclusive, sel,
                          board_set, entered)
    ELSE LET r == count_pair_loop(i + 1, i, idx, player_specs,
                                  HashInsert(used_cards, all_cards[i]), cnt,
                                  max_exclusive, sel, board_set, entered)
             after == HashRemove(r.used, all_cards[i])
         IN IF r.reached THEN CountFrame(after, r.count, TRUE, r.entered)
            ELSE count_first_loop(i + 1, idx, player_specs, after, r.count,
                                  max_exclusive, sel, board_set, r.entered)

\* recurse of count_valid_assignments_for_specs; idx counts from 0.
count_recurse(idx, player_specs, used_cards, cnt, max_exclusive, sel, board_set) ==
    LET entered == EntryHolds(idx, used_cards, sel, board_set)
    IN IF idx = Len(player_specs)
       THEN CountFrame(used_cards, cnt + 1, cnt + 1 >= max_exclusive, entered)
       ELSE LET spec == player_specs[idx + 1]
            IN CASE spec.kind = "Exact" ->
                     IF spec.cards[1] \in used_cards \/ spec.cards[2] \in used_cards
                     THEN CountFrame(used_cards, cnt, FALSE, entered)
                     ELSE LET r == count_recurse(
                                       idx + 1, player_specs,
                                       HashInsert(HashInsert(used_cards, spec.cards[1]),
                                                  spec.cards[2]),
                                       cnt, max_exclusive, Append(sel, spec.cards),
                                       board_set)
                          IN CountFrame(HashRemove(HashRemove(r.used, spec.cards[1]),
                                                   spec.cards[2]),
                                        r.count, r.reached, entered /\ r.entered)
                 [] spec.kind = "Range" ->
                     count_range_loop(1, idx, player_specs, used_cards, cnt,
                                      max_exclusive, sel, board_set, entered)
                 [] spec.kind = "Partial" ->
                     IF spec.cards[1] \in used_cards
                     THEN CountFrame(used_cards, cnt, FALSE, entered)
                     ELSE LET r == count_second_loop(
                                       1, spec.cards[1], idx, player_specs,
                                       HashInsert(used_cards, spec.cards[1]), cnt,
                                       max_exclusive, sel, board_set, entered)
                          IN CountFrame(HashRemove(r.used, spec.cards[1]), r.count,
                                        r.reached, r.entered)
                 [] OTHER ->
                     count_first_loop(1, idx, player_specs, used_cards, cnt,
                                      max_exclusive, sel, board_set, entered)

\* count_valid_assignments_for_specs as a whole: the frame its outermost
\* recurse hands back.
count_walk(player_specs, board_cards, max_exclusive) ==
    count_recurse(0, player_specs, SeqToSet(board_cards), 0, max_exclusive, <<>>,
                  SeqToSet(board_cards))

\* The enumerator: selected_hands is pushed and popped next to used_cards,
\* `out` collects the tuples handed to the callback.
EnumFrame(u, s, o, e) == [used |-> u, selected |-> s, out |-> o, entered |-> e]
Pop(s) == SubSeq(s, 1, Len(s) - 1)

RECURSIVE enum_recurse(_, _, _, _, _, _)

RECURSIVE enum_range_loop(_, _, _, _, _, _, _, _)
enum_range_loop(k, idx, player_specs, used_cards, selected_hands, out, board_set, entered) ==
    LET hands == player_specs[idx + 1].range
    IN IF k > Len(hands) THEN EnumFrame(used_cards, selected_hands, out, entered)
       ELSE IF hands[k][1] \in used_cards \/ hands[k][2] \in used_cards
       THEN enum_range_loop(k + 1, idx, player_specs, used_cards, selected_hands, out,
                            board_set, entered)
       ELSE LET r == enum_recurse(idx + 1, player_specs,
                                  HashInsert(HashInsert(used_cards, hands[k][1]),
                                             hands[k][2]),
                                  Append(selected_hands, hands[k]), out, board_set)
            IN enum_range_loop(k + 1, idx, player_specs,
                               HashRemove(HashRemove(r.used, hands[k][1]), hands[k][2]),
                               Pop(r.selected), r.out, board_set, entered /\ r.entered)

RECURSIVE enum_second_loop(_, _, _, _, _, _, _, _, _)
enum_second_loop(k, known, idx, player_specs, used_cards, selected_hands, out, board_set, entered) ==
    IF k > DeckSize THEN EnumFrame(used_cards, selected_hands, out, entered)
    ELSE IF all_cards[k] = known \/ all_cards[k] \in used_cards
    THEN enum_second_loop(k + 1, known, idx, player_specs, used_cards, selected_hands,
                          out, board_set, entered)
    ELSE LET r == enum_recurse(idx + 1, player_specs,
                               HashInsert(used_cards, all_cards[k]),
                               Append(selected_hands, <<known, all_cards[k]>>), out,
                               board_set)
         IN enum_second_loop(k + 1, known, idx, player_specs,
                             HashRemove(r.used, all_cards[k]), Pop(r.selected), r.out,
                             board_set, entered /\ r.entered)

RECURSIVE enum_pair_loop(_, _, _, _, _, _, _, _, _)
enum_pair_loop(j, i, idx, player_specs, used_cards, selected_hands, out, board_set, entered) ==
    IF j > DeckSize THEN EnumFrame(used_cards, selected_hands, out, entered)
    ELSE IF all_cards[j] \in used_cards
    THEN enum_pair_loop(j + 1, i, idx, player_specs, used_cards, selected_hands, out,
                        board_set, entered)
    ELSE LET r == enum_recurse(idx + 1, player_specs,
                               HashInsert(used_cards, all_cards[j]),
                               Append(selected_hands, <<all_cards[i], all_cards[j]>>),
                               out, board_set)
         IN enum_pair_loop(j + 1, i, idx, player_specs,
                           HashRemove(r.used, all_cards[j]), Pop(r.selected), r.out,
                           board_set, entered /\ r.entered)

RECURSIVE enum_first_loop(_, _, _, _, _, _, _, _)
enum_first_loop(i, idx, player_specs, used_cards, selected_hands, out, board_set, entered) ==
    IF i > DeckSize THEN EnumFrame(used_cards, selected_hands, out, entered)
    ELSE IF all_cards[i] \in used_cards
    THEN enum_first_loop(i + 1, idx, player_specs, used_cards, selected_hands, out,
                         board_set, entered)
    ELSE LET r == enum_pair_loop(i + 1, i, idx, player_specs,
                                 HashInsert(used_cards, all_cards[i]), selected_hands,
                                 out, board_set, entered)
         IN enum_first_loop(i + 1, idx, player_specs, HashRemove(r.used, all_cards[i]),
                            r.selected, r.out, board_set, r.entered)

\* recurse of for_each_valid_assignment_for_specs; idx counts from 0.
enum_recurse(idx, player_specs, used_cards, selected_hands, out, board_set) ==
    LET entered == EntryHolds(idx, used_cards, selected_hands, board_set)
    IN IF idx = Len(player_specs)
       THEN EnumFrame(used_cards, selected_hands, Append(out, selected_hands), entered)
       ELSE LET spec == player_specs[idx + 1]
            IN CASE spec.kind = "Exact" ->
                     IF spec.cards[1] \in used_cards \/ spec.cards[2] \in used_cards
                     THEN EnumFrame(used_cards, selected_hands, out, entered)
                     ELSE LET r == enum_recurse(
                                       idx + 1, player_specs,
                                       HashInsert(HashInsert(used_cards, spec.cards[1]),
                                                  spec.cards[2]),
                                       Append(selected_hands, spec.cards), out, board_set)
                          IN EnumFrame(HashRemove(HashRemove(r.used, spec.cards[1]),
                                                  spec.cards[2]),
                                       Pop(r.selected), r.out, entered /\ r.entered)
                 [] spec.kind = "Range" ->
                     enum_range_loop(1, idx, player_specs, used_cards, selected_hands,
                                     out, board_set, entered)
                 [] spec.kind = "Partial" ->
                     IF spec.cards[1] \in used_cards
                     THEN EnumFrame(used_cards, selected_hands, out, entered)
                     ELSE LET r == enum_second_loop(
                                       1, spec.cards[1], idx, player_specs,
                                       HashInsert(used_cards, spec.cards[1]),
                                       selected_hands, out, board_set, entered)
                          IN EnumFrame(HashRemove(r.used, spec.cards[1]), r.selected,
                                       r.out, r.entered)
                 [] OTHER ->
                     enum_first_loop(1, idx, player_specs, used_cards, selected_hands,
                                     out, board_set, entered)

enum_walk(player_specs, board_cards) ==
    enum_recurse(0, player_specs, SeqToSet(board_cards), <<>>, <<>>,
                 SeqToSet(board_cards))

(* --------------------------- exact equity ----------------------------- *)
ZeroVec(n) == [i \in 1..n |-> 0]
IntVecAdd(u, v) == <<>> \o [i \in 1..Len(u) |-> u[i] + v[i]]

\* A deal: one hand per player and the full board.
Deal(hands, full_board) == [hands |-> hands, board |-> full_board]

\* The deals of one tuple: the board completed by every runout of the remaining deck.
TupleDeals(player_hands, board_cards, remaining_deck, missing) ==
    LET runouts == for_each_combination(remaining_deck, missing)
    IN <<>> \o [j \in 1..Len(runouts) |-> Deal(player_hands, board_cards \o runouts[j])]

CreditAll(ds, n) ==
    LET ws == <<>> \o [j \in 1..Len(ds) |-> Winners(ds[j].hands, ds[j].board)]
    IN <<>> \o [i \in 1..n |-> Cardinality({j \in 1..Len(ds) : i \in ws[j]})]

\* A normalisation that divides by one more than the total (used to probe C2).
NormaliseOffByOne(w) ==
    [i \in 1..Len(w) |-> Rat(100 * w[i], SumSeq(w) + 1)]

\* Win counters to percentages: w / total * 100, or 100 / n each when total = 0.
Normalise(w) ==
    LET total == SumSeq(w)
    IN IF total = 0 THEN [i \in 1..Len(w) |-> Rat(100, Len(w))]
       ELSE [i \in 1..Len(w) |-> Rat(100 * w[i], total)]

\* calculate_exact_equity: win counters over all runouts, then normalised.
ExactWins(player_hands, board_cards, remaining_deck, missing) ==
    CreditAll(TupleDeals(player_hands, board_cards, remaining_deck, missing),
              Len(player_hands))

calculate_exact_equity(player_hands, board_cards, remaining_deck, missing) ==
    Normalise(ExactWins(player_hands, board_cards, remaining_deck, missing))

RemainingDeck(hands, board_cards) ==
    DeckWithout(SeqToSet(board_cards) \cup UNION {HandCards(hands[i]) : i \in 1..Len(hands)})

VecSum(vs, n) ==
    <<>> \o [i \in 1..n |-> RatSum(<<>> \o [t \in 1..Len(vs) |-> vs[t][i]])]

\* The mean of the per-tuple equity vectors: totals[i] / assignment_count.
MeanOfTuples(tuple_wins, n, assignment_count) ==
    LET sums == VecSum([t \in 1..Len(tuple_wins) |-> Normalise(tuple_wins[t])], n)
    IN [i \in 1..n |-> RatDivInt(sums[i], assignment_count)]

(* ------------------------------ results ------------------------------- *)
InvalidHand == "InvalidHand"
InvalidRange == "InvalidRange"
ExactEnumeration == "ExactEnumeration"
MonteCarlo == "MonteCarlo"

Ok(equities, mode, n) ==
    [ok |-> TRUE, err |-> "", equities |-> equities, mode |-> mode, samples |-> n]
Err(e) == [ok |-> FALSE, err |-> e, equities |-> <<>>, mode |-> "", samples |-> 0]
NoResult == [ok |-> FALSE, err |-> "pending", equities |-> <<>>, mode |-> "", samples |-> 0]

(* ------------------------- input descriptors -------------------------- *)
\* A player descriptor after tokenising: a list of card tokens (none, one,
\* two, more) or the hands a range expression expands to.
CardsInput(cs) == [kind |-> "Cards", cards |-> cs, range |-> <<>>]
RangeInput(hs) == [kind |-> "Range", cards |-> <<>>, range |-> hs]

\* Pre-flop, flop, turn and river: 0 or FlopSize..BoardSize cards.
ValidBoardLens == {0} \cup (FlopSize..BoardSize)

HasDuplicates(s) == \E i, j \in 1..Len(s) : i < j /\ s[i] = s[j]

(* ------------------ calculate_equity_with_math (equity.rs) ------------- *)
\* parse_board_input: only the accepted lengths, no duplicate card.
parse_board_input(b) ==
    IF Len(b) \notin ValidBoardLens \/ HasDuplicates(b) THEN InvalidHand ELSE ""

\* A parser that keeps only the first card of a two-card descriptor (used to
\* probe C13).
parse_player_hand_input_first_card(input, board_set) ==
    IF input.kind = "Cards" /\ Len(input.cards) = 2
    THEN <<"", PartialSpec(input.cards[1])>>
    ELSE <<InvalidHand, UnknownSpec>>

\* parse_player_hand_input: <<error, spec>>.
parse_player_hand_input(input, board_set) ==
    IF input.kind = "Cards"
    THEN CASE Len(input.cards) = 0 -> <<"", UnknownSpec>>
           [] Len(input.cards) = 1 ->
                  IF input.cards[1] \in board_set THEN <<InvalidHand, UnknownSpec>>
                  ELSE <<"", PartialSpec(input.cards[1])>>
           [] Len(input.cards) = 2 ->
                  IF input.cards[1] = input.cards[2] \/ ~Free(input.cards, board_set)
                  THEN <<InvalidHand, UnknownSpec>>
                  ELSE <<"", ExactSpec(input.cards)>>
           [] OTHER -> <<InvalidHand, UnknownSpec>>
    ELSE LET hands == SelectSeq(input.range,
                                LAMBDA h : h[1] # h[2] /\ Free(h, board_set))
         IN IF hands = <<>> THEN <<InvalidRange, UnknownSpec>>
            ELSE <<"", RangeSpec(hands)>>

(* ------------------- descriptors as text (parsing.rs) ------------------ *)
\* The characters a descriptor is written with: values and suits of the card
\* tokens, white space, the comma, and a character that is none of these.
TextValues == <<"A", "K">>
TextSuits == <<"s">>
Whitespace == {" "}
TextAlphabet ==
    SeqToSet(TextValues) \cup SeqToSet(TextSuits) \cup Whitespace \cup {",", "x"}

PositionIn(seq, ch) == CHOOSE i \in 1..Len(seq) : seq[i] = ch

\* parse_card: value and suit are read from the first two characters, what
\* follows them is not looked at.  0 stands for Err(InvalidCard); a card is
\* its position in the deck, NumSuits cards per value.
parse_card(s) ==
    IF Len(s) < 2 THEN 0
    ELSE IF s[1] \notin SeqToSet(TextValues) \/ s[2] \notin SeqToSet(TextSuits) THEN 0
    ELSE (PositionIn(TextValues, s[1]) - 1) * NumSuits + PositionIn(TextSuits, s[2])

\* str::trim
trim(s) ==
    LET keep == {i \in 1..Len(s) : s[i] \notin Whitespace}
    IN IF keep = {} THEN <<>>
       ELSE SubSeq(s, CHOOSE i \in keep : \A j \in keep : i <= j,
                      CHOOSE i \in keep : \A j \in keep : j <= i)

\* str::split_whitespace: the maximal runs of characters other than white space.
RECURSIVE SplitFrom(_, _, _, _)
SplitFrom(s, i, cur, acc) ==
    IF i > Len(s) THEN IF cur = <<>> THEN acc ELSE Append(acc, cur)
    ELSE IF s[i] \in Whitespace
    THEN SplitFrom(s, i + 1, <<>>, IF cur = <<>> THEN acc ELSE Append(acc, cur))
    ELSE SplitFrom(s, i + 1, Append(cur, s[i]), acc)

split_whitespace(s) == SplitFrom(s, 1, <<>>, <<>>)

\* parse_cards: <<ok, cards>>.  Separators are dropped and the rest cut into
\* pairs of characters; when that fails, the text is cut at the separators
\* and every piece goes through parse_card.
parse_cards(s) ==
    LET cleaned == SelectSeq(s, LAMBDA c : c \notin Whitespace /\ c # ",")
        chunks == <<>> \o [j \in 1..(Len(cleaned) \div 2) |->
                              parse_card(SubSeq(cleaned, 2 * j - 1, 2 * j))]
        pieces == split_whitespace(<<>> \o [i \in 1..Len(s) |->
                                               IF s[i] = "," THEN " " ELSE s[i]])
        parsed == <<>> \o [j \in 1..Len(pieces) |-> parse_card(pieces[j])]
    IN IF cleaned = <<>> THEN <<FALSE, <<>>>>
       ELSE IF /\ Len(cleaned) % 2 = 0
               /\ \A j \in 1..Len(chunks) : chunks[j] # 0
       THEN <<TRUE, chunks>>
       ELSE IF \A j \in 1..Len(parsed) : parsed[j] # 0 THEN <<TRUE, parsed>>
       ELSE <<FALSE, <<>>>>

\* parse_player_hand_input on a written descriptor: the cards parse_cards
\* finds are classified by their number; a text parse_cards rejects goes to
\* the range parser, whose answer is not modelled.
parse_player_hand_input_str(input, board_set) ==
    LET trimmed == trim(input)
        cards == parse_cards(trimmed)
        classified == parse_player_hand_input(
                          CardsInput(IF trimmed = <<>> THEN <<>> ELSE cards[2]), board_set)
    IN IF trimmed # <<>> /\ ~cards[1]
       THEN [range_parser |-> TRUE, err |-> "", spec |-> UnknownSpec]
       ELSE [range_parser |-> FALSE, err |-> classified[1], spec |-> classified[2]]

\* A per-player loop that parses and never compares the known cards (used to
\* probe C16).
RECURSIVE ParsePlayersUnchecked(_, _, _, _, _)
ParsePlayersUnchecked(inputs, idx, board_set, fixed_known_cards, acc) ==
    IF idx > Len(inputs) THEN [err |-> "", specs |-> acc]
    ELSE LET r == parse_player_hand_input(inputs[idx], board_set)
         IN IF r[1] # "" THEN [err |-> r[1], specs |-> <<>>]
            ELSE ParsePlayersUnchecked(inputs, idx + 1, board_set, fixed_known_cards,
                                       Append(acc, r[2]))

\* The per-player loop of calculate_equity_with_math: parse, then reject a
\* known card seen before.  [err, specs].
RECURSIVE ParsePlayers(_, _, _, _, _)
ParsePlayers(inputs, idx, board_set, fixed_known_cards, acc) ==
    IF idx > Len(inputs) THEN [err |-> "", specs |-> acc]
    ELSE LET r == parse_player_hand_input(inputs[idx], board_set)
             spec == r[2]
             known == SeqToSet(spec.cards)
         IN IF r[1] # "" THEN [err |-> r[1], specs |-> <<>>]
            ELSE IF spec.kind \in {"Exact", "Partial"} /\ known \cap fixed_known_cards # {}
            THEN [err |-> InvalidHand, specs |-> <<>>]
            ELSE ParsePlayers(inputs, idx + 1, board_set, fixed_known_cards \cup known,
                              Append(acc, spec))

\* A validation that never compares the number of cards with the deck (used
\* to probe C17).
validate_range_inputs_any_size(player_ranges, board_cards) ==
    IF Len(player_ranges) < 2 \/ Len(board_cards) > BoardSize \/ HasDuplicates(board_cards)
    THEN InvalidHand
    ELSE IF \E i \in 1..Len(player_ranges) :
                \/ player_ranges[i] = <<>>
                \/ \E k \in 1..Len(player_ranges[i]) :
                       player_ranges[i][k][1] = player_ranges[i][k][2]
    THEN InvalidRange
    ELSE ""

\* validate_range_inputs, for the lists calculate_equity_with_math hands over.
validate_range_inputs(player_ranges, board_cards) ==
    IF Len(player_ranges) < 2 \/ Len(board_cards) > BoardSize \/ HasDuplicates(board_cards)
    THEN InvalidHand
    ELSE IF \E i \in 1..Len(player_ranges) :
                \/ player_ranges[i] = <<>>
                \/ \E k \in 1..Len(player_ranges[i]) :
                       player_ranges[i][k][1] = player_ranges[i][k][2]
    THEN InvalidRange
    ELSE IF Len(board_cards) + 2 * Len(player_ranges) > DeckSize THEN InvalidHand
    ELSE ""

\* The mode selector shared by calculate_equity_from_ranges_with_math and
\* calculate_equity_with_dynamic_players_with_math.
\* [err, mode, count, runouts, limit, budget].
SelectMode(player_specs, board_cards, iters, ranges_only) ==
    LET num_players == Len(player_specs)
        missing == BoardSize - Len(board_cards)
        fits == Len(board_cards) + 2 * num_players <= DeckSize
        \* a usize subtraction: it wraps when the cards exceed the deck, which
        \* only the dynamic solver checks here (the range solver has validated)
        remaining_after_holes ==
            (DeckSize - Len(board_cards) - 2 * num_players) % (UsizeMax + 1)
        runout_combinations == combination_count(remaining_after_holes, missing)
        iteration_budget == default_iterations(iters)
        exact_assignment_limit ==
            IF runout_combinations = 0 THEN 0 ELSE iteration_budget \div runout_combinations
        max_exclusive == exact_assignment_limit + 1
        valid_assignment_count ==
            IF ranges_only
            THEN count_valid_range_assignments(player_ranges_of(player_specs), board_cards,
                                               max_exclusive)
            ELSE count_valid_assignments_for_specs(player_specs, board_cards, max_exclusive)
        out(e, m, c) == [err |-> e, mode |-> m, count |-> c,
                         runouts |-> runout_combinations,
                         limit |-> exact_assignment_limit, budget |-> iteration_budget]
    IN IF ranges_only /\ validate_range_inputs(player_ranges_of(player_specs), board_cards) # ""
       THEN out(validate_range_inputs(player_ranges_of(player_specs), board_cards), "", 0)
       ELSE IF ~ranges_only /\ ~fits THEN out(InvalidHand, "", 0)
       ELSE IF runout_combinations = 0 THEN out(InvalidHand, "", 0)
       ELSE IF valid_assignment_count = 0 THEN out(InvalidRange, "", 0)
       ELSE IF valid_assignment_count <= exact_assignment_limit
       THEN out("", ExactEnumeration, valid_assignment_count)
       ELSE out("", MonteCarlo, valid_assignment_count)

RangesOnly(player_specs) ==
    \A i \in 1..Len(player_specs) : player_specs[i].kind \in {"Exact", "Range"}

\* calculate_equity_with_math up to the dispatch: [err, specs, sel].
calculate_equity_with_math(player_hands, b, iters) ==
    LET parsed == ParsePlayers(player_hands, 1, SeqToSet(b), SeqToSet(b), <<>>)
        sel == SelectMode(parsed.specs, b, iters, RangesOnly(parsed.specs))
        fail(e) == [err |-> e, specs |-> <<>>, mode |-> "", count |-> 0, budget |-> 0]
    IN IF Len(player_hands) < 2 THEN fail(InvalidHand)
       ELSE IF parse_board_input(b) # "" THEN fail(parse_board_input(b))
       ELSE IF parsed.err # "" THEN fail(parsed.err)
       ELSE [err |-> sel.err, specs |-> parsed.specs, mode |-> sel.mode,
             count |-> sel.count, budget |-> sel.budget]

\* The exact branch: every tuple, every runout.  [deals, tuple_wins].
ExactRun(tuples, board_cards) ==
    LET missing == BoardSize - Len(board_cards)
        per(t) == TupleDeals(tuples[t], board_cards,
                             RemainingDeck(tuples[t], board_cards), missing)
        all == <<>> \o [t \in 1..Len(tuples) |-> per(t)]
    IN [deals |-> Flatten(all),
        tuple_wins |-> [t \in 1..Len(tuples) |-> CreditAll(all[t], Len(tuples[t]))]]

\* calculate_exact_equity_for_specs / the exact branch of the range solver.
ExactTuples(player_specs, board_cards) ==
    IF RangesOnly(player_specs)
    THEN for_each_valid_range_assignment(player_ranges_of(player_specs), board_cards)
    ELSE for_each_valid_assignment_for_specs(player_specs, board_cards)

\* The exact branch as a whole: the mean of the per-tuple vectors and the
\* reported number of states.  [deals, tuple_wins, result].
calculate_exact_result(player_specs, board_cards, valid_assignment_count) ==
    LET run == ExactRun(ExactTuples(player_specs, board_cards), board_cards)
        runout_combinations ==
            combination_count(DeckSize - Len(board_cards) - 2 * Len(player_specs),
                              BoardSize - Len(board_cards))
        total_states == SaturatingMul(valid_assignment_count, runout_combinations)
    IN [deals |-> run.deals,
        tuple_wins |-> run.tuple_wins,
        result |-> Ok(MeanOfTuples(run.tuple_wins, Len(player_specs), valid_assignment_count),
                      ExactEnumeration, total_states)]

(* ----------- estimate_equity (estimate.rs, enumeration.rs) ------------ *)
\* HoleCardsInput::from_str: <<error, spec>>.
HoleCardsInput_from_str(input) ==
    IF input.kind = "Cards"
    THEN CASE Len(input.cards) = 0 -> <<"", UnknownSpec>>
           [] Len(input.cards) = 1 -> <<"", PartialSpec(input.cards[1])>>
           [] Len(input.cards) = 2 -> <<"", ExactSpec(input.cards)>>
           [] OTHER -> <<InvalidHand, UnknownSpec>>
    ELSE IF input.range = <<>> THEN <<InvalidRange, UnknownSpec>>
    ELSE <<"", RangeSpec(input.range)>>

\* BoardCardsInput::from_str: empty, flop, turn or river.
BoardCardsInput_from_str(b) ==
    IF Len(b) = 0 THEN ""
    ELSE IF HasDuplicates(b) \/ Len(b) \notin ValidBoardLens THEN InvalidHand
    ELSE ""

\* The first parse error among the players, hero first ("" when none).
RECURSIVE FirstParseError(_, _)
FirstParseError(inputs, idx) ==
    IF idx > Len(inputs) THEN ""
    ELSE IF idx = 2 /\ HoleCardsInput_from_str(inputs[1])[2].kind \in {"Range", "Unknown"}
    THEN InvalidHand
    ELSE IF HoleCardsInput_from_str(inputs[idx])[1] # ""
    THEN HoleCardsInput_from_str(inputs[idx])[1]
    ELSE FirstParseError(inputs, idx + 1)

\* A validation loop that takes every range as the parser gave it (used to
\* probe C18).
RECURSIVE ValidateKnownKeepingRanges(_, _, _, _, _)
ValidateKnownKeepingRanges(ps, idx, board_set, fixed_known, acc) ==
    IF idx > Len(ps) THEN [err |-> "", specs |-> acc, fixed_known |-> fixed_known]
    ELSE LET p == ps[idx]
             bad(e) == [err |-> e, specs |-> <<>>, fixed_known |-> fixed_known]
         IN IF p.kind \in {"Exact", "Partial"}
            THEN IF HasDuplicates(p.cards) \/ SeqToSet(p.cards) \cap fixed_known # {}
                 THEN bad(InvalidHand)
                 ELSE ValidateKnownKeepingRanges(ps, idx + 1, board_set,
                                                 fixed_known \cup SeqToSet(p.cards),
                                                 Append(acc, p))
            ELSE ValidateKnownKeepingRanges(ps, idx + 1, board_set, fixed_known,
                                            Append(acc, p))

\* The validation loop of estimate_equity: known cards against the board and
\* each other, ranges filtered by the known cards seen so far.
\* [err, specs, fixed_known].
RECURSIVE ValidateKnown(_, _, _, _, _)
ValidateKnown(ps, idx, board_set, fixed_known, acc) ==
    IF idx > Len(ps) THEN [err |-> "", specs |-> acc, fixed_known |-> fixed_known]
    ELSE LET p == ps[idx]
             bad(e) == [err |-> e, specs |-> <<>>, fixed_known |-> fixed_known]
         IN CASE p.kind = "Exact" ->
                     IF p.cards[1] = p.cards[2] THEN bad(InvalidHand)
                     ELSE IF ~Free(p.cards, board_set) THEN bad(InvalidHand)
                     ELSE IF ~Free(p.cards, fixed_known) THEN bad(InvalidHand)
                     ELSE ValidateKnown(ps, idx + 1, board_set,
                                        fixed_known \cup HandCards(p.cards), Append(acc, p))
              [] p.kind = "Partial" ->
                     IF p.cards[1] \in board_set \/ p.cards[1] \in fixed_known
                     THEN bad(InvalidHand)
                     ELSE ValidateKnown(ps, idx + 1, board_set,
                                        fixed_known \cup {p.cards[1]}, Append(acc, p))
              [] p.kind = "Range" ->
                     LET kept == SelectSeq(p.range,
                                           LAMBDA h : h[1] # h[2] /\ Free(h, fixed_known))
                     IN IF kept = <<>> THEN bad(InvalidRange)
                        ELSE ValidateKnown(ps, idx + 1, board_set, fixed_known,
                                           Append(acc, RangeSpec(kept)))
              [] OTHER -> ValidateKnown(ps, idx + 1, board_set, fixed_known, Append(acc, p))

CountKind(ps, kind) == Cardinality({i \in 1..Len(ps) : ps[i].kind = kind})

RECURSIVE RangeProduct(_, _)
RangeProduct(ps, idx) ==
    IF idx > Len(ps) THEN 1
    ELSE IF ps[idx].kind = "Range"
    THEN SaturatingMul(RangeProduct(ps, idx + 1), Len(ps[idx].range))
    ELSE RangeProduct(ps, idx + 1)

NonRangeSlots(ps, b) ==
    CountKind(ps, "Partial") + 2 * CountKind(ps, "Unknown") + (BoardSize - Len(b))

\* estimate_enumeration_count: -1 stands for None (the product overflowed).
estimate_enumeration_count(available_count, non_range_slots, range_product) ==
    LET choose == n_choose_k(available_count, non_range_slots)
    IN IF choose # 0 /\ range_product > UsizeMax \div choose THEN -1
       ELSE range_product * choose

\* The mode decision of estimate_equity.
UseExact(ps, b, fixed_known, iters) ==
    LET available_for_estimate ==
            Max(Max(DeckSize - Cardinality(fixed_known), 0) - 2 * CountKind(ps, "Range"), 0)
        enum_count == estimate_enumeration_count(available_for_estimate,
                                                 NonRangeSlots(ps, b), RangeProduct(ps, 1))
    IN enum_count # -1 /\ enum_count > 0 /\ enum_count <= iters

\* estimate_equity up to the dispatch: [err, specs, fixed_known, mode].
estimate_equity(inputs, b, iters) ==
    LET parsed == [i \in 1..Len(inputs) |-> HoleCardsInput_from_str(inputs[i])[2]]
        checked == ValidateKnown(parsed, 1, SeqToSet(b), SeqToSet(b), <<>>)
        fail(e) == [err |-> e, specs |-> <<>>, fixed_known |-> {}, mode |-> ""]
    IN IF Len(inputs) < 2 THEN fail(InvalidHand)
       ELSE IF BoardCardsInput_from_str(b) # "" THEN fail(InvalidHand)
       ELSE IF FirstParseError(inputs, 1) # "" THEN fail(FirstParseError(inputs, 1))
       ELSE IF Len(b) + 2 * Len(inputs) > DeckSize THEN fail(InvalidHand)
       ELSE IF checked.err # "" THEN fail(checked.err)
       ELSE [err |-> "", specs |-> checked.specs, fixed_known |-> checked.fixed_known,
             mode |-> IF UseExact(checked.specs, b, checked.fixed_known, iters)
                      THEN ExactEnumeration ELSE MonteCarlo]

\* for_each_combination of enumeration.rs: index vector advanced in place.
\* Positions are 1-based; position i may hold at most n - k + i.
NextIndices(indices, n, k) ==
    LET movable == {i \in 1..k : indices[i] + 1 <= n - k + i}
        i == SetMax(movable)
    IN IF movable = {} THEN <<>>
       ELSE <<>> \o [j \in 1..k |-> IF j < i THEN indices[j] ELSE indices[i] + 1 + (j - i)]

RECURSIVE IndexCombos(_, _, _)
IndexCombos(cards, k, indices) ==
    LET buf == <<>> \o [j \in 1..k |-> cards[indices[j]]]
        next == NextIndices(indices, Len(cards), k)
    IN IF k = 0 \/ next = <<>> THEN <<buf>>
       ELSE <<buf>> \o IndexCombos(cards, k, next)

for_each_combination_indexed(cards, k) ==
    IF k > Len(cards) THEN <<>>
    ELSE IndexCombos(cards, k, <<>> \o [j \in 1..k |-> j])

\* The callback of enumerate_ranges: hole cards from one combination, in
\* player order, the cursor moving by 1 (Partial) or 2 (Unknown).
RECURSIVE Distribute(_, _, _, _, _, _)
Distribute(ps, idx, cursor, range_cursor, range_assignments, combo) ==
    IF idx > Len(ps) THEN <<>>
    ELSE CASE ps[idx].kind = "Exact" ->
                  <<ps[idx].cards>>
                  \o Distribute(ps, idx + 1, cursor, range_cursor, range_assignments, combo)
           [] ps[idx].kind = "Partial" ->
                  << <<ps[idx].cards[1], combo[cursor]>> >>
                  \o Distribute(ps, idx + 1, cursor + 1, range_cursor, range_assignments, combo)
           [] ps[idx].kind = "Unknown" ->
                  << <<combo[cursor], combo[cursor + 1]>> >>
                  \o Distribute(ps, idx + 1, cursor + 2, range_cursor, range_assignments, combo)
           [] OTHER ->
                  <<range_assignments[range_cursor]>>
                  \o Distribute(ps, idx + 1, cursor, range_cursor + 1, range_assignments, combo)

\* The leaf of enumerate_ranges: the deals of one range assignment.
LeafDeals(ps, range_assignments, available, b) ==
    LET range_used == UNION {HandCards(range_assignments[i]) :
                                i \in 1..Len(range_assignments)}
        pool == SelectSeq(available, LAMBDA c : c \notin range_used)
        slots == NonRangeSlots(ps, b)
        missing == BoardSize - Len(b)
        combos == IF Len(pool) < slots THEN <<>>
                  ELSE for_each_combination_indexed(pool, slots)
    IN <<>> \o [j \in 1..Len(combos) |->
                  Deal(Distribute(ps, 1, 1, 1, range_assignments, combos[j]),
                       b \o SubSeq(combos[j], slots - missing + 1, slots))]

\* enumerate_ranges: the cartesian product of the Range players' hands, each
\* hand skipped when it meets a known, board or earlier range card.
RECURSIVE enumerate_ranges(_, _, _, _, _, _, _)
enumerate_ranges(ps, range_indices, depth, range_assignments, available, fixed_known, b) ==
    IF depth > Len(range_indices) THEN LeafDeals(ps, range_assignments, available, b)
    ELSE LET hands == ps[range_indices[depth]].range
             used_by_prior == UNION {HandCards(range_assignments[i]) : i \in 1..(depth - 1)}
         IN Flatten(<<>> \o [k \in 1..Len(hands) |->
                IF Free(hands[k], fixed_known \cup SeqToSet(b) \cup used_by_prior)
                THEN enumerate_ranges(ps, range_indices, depth + 1,
                                      SubSeq(range_assignments, 1, depth - 1) \o <<hands[k]>>,
                                      available, fixed_known, b)
                ELSE <<>>])

\* estimate_equity_exact_enumeration: the deals it evaluates, in order.
estimate_equity_exact_enumeration(ps, b, fixed_known) ==
    LET range_indices == SelectSeq([i \in 1..Len(ps) |-> i], LAMBDA i : ps[i].kind = "Range")
    IN enumerate_ranges(ps, range_indices, 1, <<>>, DeckWithout(fixed_known), fixed_known, b)

\* Its result: the pooled win counters normalised, total_combos as samples.
\* [deals, wins, result].
estimate_exact_result(ps, b) ==
    LET fixed_known == SeqToSet(b) \cup UNION {SeqToSet(ps[i].cards) : i \in 1..Len(ps)}
        ds == estimate_equity_exact_enumeration(ps, b, fixed_known)
        w == CreditAll(ds, Len(ps))
    IN [deals |-> ds, wins |-> w, result |-> Ok(Normalise(w), ExactEnumeration, Len(ds))]

\* History of pot shares: a deal won by k players gives each of them 1/k,
\* counted in units of 1/n! so that the sum stays an integer.
RECURSIVE Factorial(_)
Factorial(n) == IF n <= 1 THEN 1 ELSE n * Factorial(n - 1)
ChopShare(hands, full_board) ==
    LET w == Winners(hands, full_board)
        n == Len(hands)
    IN <<>> \o [i \in 1..n |-> IF i \in w THEN Factorial(n) \div Cardinality(w) ELSE 0]
ChopAll(ds, n) ==
    LET ws == <<>> \o [j \in 1..Len(ds) |-> Winners(ds[j].hands, ds[j].board)]
        part(i, k) == Cardinality({j \in 1..Len(ds) : i \in ws[j] /\ Cardinality(ws[j]) = k})
    IN <<>> \o [i \in 1..n |->
                  SumSeq([k \in 1..n |-> part(i, k) * (Factorial(n) \div k)])]

(* ---------------------------- Monte Carlo ----------------------------- *)
\* Every ordered draw of k distinct cards from S: the first k cards a
\* shuffle of S can put in front.
RECURSIVE Arrangements(_, _)
Arrangements(S, k) ==
    IF k = 0 THEN {<<>>}
    ELSE UNION {{<<c>> \o r : r \in Arrangements(S \ {c}, k - 1)} : c \in S}

\* The outcome of one iteration: a deal to evaluate, or the iteration abandoned.
NoDeal == Deal(<<>>, <<>>)
Abandoned == [valid |-> FALSE, deal |-> NoDeal]
Dealt(hands, full_board) == [valid |-> TRUE, deal |-> Deal(hands, full_board)]

KnownCards(ps) ==
    UNION {SeqToSet(ps[i].cards) : i \in 1..Len(ps)}

\* First pass of estimate_equity_monte_carlo: each Range player draws up to
\* 100 hands and keeps the first that is free.  Any free hand can be the one
\* kept; the pass fails when 100 draws can all collide.
RECURSIVE FirstPass(_, _, _, _)
FirstPass(ps, idx, used, hole_cards) ==
    IF idx > Len(ps) THEN {[found |-> TRUE, used |-> used, hole_cards |-> hole_cards]}
    ELSE IF ps[idx].kind # "Range" THEN FirstPass(ps, idx + 1, used, hole_cards)
    ELSE LET hands == ps[idx].range
             free == {k \in 1..Len(hands) : Free(hands[k], used)}
         IN UNION {FirstPass(ps, idx + 1, used \cup HandCards(hands[k]),
                             [hole_cards EXCEPT ![idx] = hands[k]]) : k \in free}
            \cup (IF free # 1..Len(hands)
                  THEN {[found |-> FALSE, used |-> used, hole_cards |-> hole_cards]}
                  ELSE {})

\* A second pass in which an Unknown player moves the cursor by one card
\* only (used to probe C26).
RECURSIVE SecondPassUnknownByOne(_, _, _, _, _, _)
SecondPassUnknownByOne(ps, idx, cursor, available, len, hole_cards) ==
    IF idx > Len(ps) THEN [valid |-> TRUE, cursor |-> cursor, hole_cards |-> hole_cards]
    ELSE CASE ps[idx].kind = "Exact" ->
                  SecondPassUnknownByOne(ps, idx + 1, cursor, available, len,
                             [hole_cards EXCEPT ![idx] = ps[idx].cards])
           [] ps[idx].kind = "Partial" ->
                  IF cursor >= len
                  THEN [valid |-> FALSE, cursor |-> cursor, hole_cards |-> hole_cards]
                  ELSE SecondPassUnknownByOne(ps, idx + 1, cursor + 1, available, len,
                                  [hole_cards EXCEPT
                                      ![idx] = <<ps[idx].cards[1], available[cursor + 1]>>])
           [] ps[idx].kind = "Unknown" ->
                  IF cursor + 1 >= len
                  THEN [valid |-> FALSE, cursor |-> cursor, hole_cards |-> hole_cards]
                  ELSE SecondPassUnknownByOne(ps, idx + 1, cursor + 1, available, len,
                                  [hole_cards EXCEPT
                                      ![idx] = <<available[cursor + 1], available[cursor + 2]>>])
           [] OTHER -> SecondPassUnknownByOne(ps, idx + 1, cursor, available, len, hole_cards)

\* Second pass: the other players in index order, the cursor moving over the
\* shuffled cards (0-based, as in the code); len is available.len().
RECURSIVE SecondPass(_, _, _, _, _, _)
SecondPass(ps, idx, cursor, available, len, hole_cards) ==
    IF idx > Len(ps) THEN [valid |-> TRUE, cursor |-> cursor, hole_cards |-> hole_cards]
    ELSE CASE ps[idx].kind = "Exact" ->
                  SecondPass(ps, idx + 1, cursor, available, len,
                             [hole_cards EXCEPT ![idx] = ps[idx].cards])
           [] ps[idx].kind = "Partial" ->
                  IF cursor >= len
                  THEN [valid |-> FALSE, cursor |-> cursor, hole_cards |-> hole_cards]
                  ELSE SecondPass(ps, idx + 1, cursor + 1, available, len,
                                  [hole_cards EXCEPT
                                      ![idx] = <<ps[idx].cards[1], available[cursor + 1]>>])
           [] ps[idx].kind = "Unknown" ->
                  IF cursor + 1 >= len
                  THEN [valid |-> FALSE, cursor |-> cursor, hole_cards |-> hole_cards]
                  ELSE SecondPass(ps, idx + 1, cursor + 2, available, len,
                                  [hole_cards EXCEPT
                                      ![idx] = <<available[cursor + 1], available[cursor + 2]>>])
           [] OTHER -> SecondPass(ps, idx + 1, cursor, available, len, hole_cards)

\* The same second pass with the indices it reads: reads are the 0-based
\* indices of available that were read, advances the cursor movement of
\* each player reached.
ReadFrame(v, c, r, a) == [valid |-> v, cursor |-> c, reads |-> r, advances |-> a]

RECURSIVE second_pass_reads(_, _, _, _, _, _)
second_pass_reads(ps, idx, cursor, len, reads, advances) ==
    IF idx > Len(ps) THEN ReadFrame(TRUE, cursor, reads, advances)
    ELSE CASE ps[idx].kind = "Partial" ->
                  IF cursor >= len THEN ReadFrame(FALSE, cursor, reads, advances)
                  ELSE second_pass_reads(ps, idx + 1, cursor + 1, len,
                                         reads \cup {cursor}, Append(advances, 1))
           [] ps[idx].kind = "Unknown" ->
                  IF cursor + 1 >= len THEN ReadFrame(FALSE, cursor, reads, advances)
                  ELSE second_pass_reads(ps, idx + 1, cursor + 2, len,
                                         reads \cup {cursor, cursor + 1},
                                         Append(advances, 2))
           [] OTHER -> second_pass_reads(ps, idx + 1, cursor, len, reads,
                                         Append(advances, 0))

\* The board loop: one read per missing card, or continue 'outer.
RECURSIVE board_reads(_, _, _)
board_reads(frame, missing, len) ==
    IF ~frame.valid \/ missing = 0 THEN frame
    ELSE IF frame.cursor >= len
         THEN ReadFrame(FALSE, frame.cursor, frame.reads, frame.advances)
         ELSE board_reads(ReadFrame(TRUE, frame.cursor + 1,
                                    frame.reads \cup {frame.cursor}, frame.advances),
                          missing - 1, len)

\* Board completion: missing_board cards from the cursor on, or abandon.
CompleteBoard(b, second, available, len) ==
    LET missing == BoardSize - Len(b)
    IN IF ~second.valid \/ second.cursor + missing > len THEN Abandoned
       ELSE Dealt(second.hole_cards,
                  b \o SubSeq(available, second.cursor + 1, second.cursor + missing))

\* An iteration that builds the available list before the Range players
\* draw (used to probe C24).
estimate_equity_monte_carlo_available_first(ps, b) ==
    LET used == SeqToSet(b) \cup KnownCards(ps)
        placeholder == <<>> \o [i \in 1..Len(ps) |-> <<all_cards[1], all_cards[1]>>]
        firsts == FirstPass(ps, 1, used, placeholder)
        need == NonRangeSlots(ps, b)
        pool == Cards \ used
        len == Cardinality(pool)
    IN UNION {IF ~f.found THEN {Abandoned}
              ELSE {CompleteBoard(b, SecondPass(ps, 1, 0, a, len, f.hole_cards), a, len) :
                       a \in Arrangements(pool, Min(need, len))} :
              f \in firsts}

\* One iteration of estimate_equity_monte_carlo.
estimate_equity_monte_carlo(ps, b) ==
    LET used == SeqToSet(b) \cup KnownCards(ps)
        placeholder == <<>> \o [i \in 1..Len(ps) |-> <<all_cards[1], all_cards[1]>>]
        firsts == FirstPass(ps, 1, used, placeholder)
        need == NonRangeSlots(ps, b)
    IN UNION {IF ~f.found THEN {Abandoned}
              ELSE LET pool == Cards \ f.used
                       len == Cardinality(pool)
                   IN {CompleteBoard(b, SecondPass(ps, 1, 0, a, len, f.hole_cards), a, len) :
                          a \in Arrangements(pool, Min(need, len))} :
              f \in firsts}

\* One attempt of sample_monte_carlo_hands_for_specs: known cards per player,
\* invalid as soon as a card is already used.  Every hand of a range can be drawn.
RECURSIVE SampleAttempts(_, _, _, _)
SampleAttempts(player_specs, idx, used_cards, hands) ==
    IF idx > Len(player_specs) THEN {[valid |-> TRUE, hands |-> hands]}
    ELSE LET spec == player_specs[idx]
             options == IF spec.kind = "Range" THEN SeqToSet(spec.range) ELSE {spec.cards}
         IN UNION {IF \E c \in SeqToSet(h) : c \in used_cards
                   THEN {[valid |-> FALSE, hands |-> <<>>]}
                   ELSE SampleAttempts(player_specs, idx + 1, used_cards \cup SeqToSet(h),
                                       Append(hands, h)) : h \in options}

\* The 100 attempts: Some(hands) for any valid attempt, None when an attempt
\* can fail (then all 100 can).
sample_monte_carlo_hands_for_specs(player_specs, b) ==
    LET attempts == SampleAttempts(player_specs, 1, SeqToSet(b), <<>>)
    IN {[some |-> TRUE, hands |-> a.hands] : a \in {x \in attempts : x.valid}}
       \cup (IF \E x \in attempts : ~x.valid THEN {[some |-> FALSE, hands |-> <<>>]} ELSE {})

\* MonteCarloGame.simulate: every hand filled to two cards and the board to
\* BoardSize from the cards not yet in a hand or on the board.
RECURSIVE FillHands(_, _, _, _)
FillHands(hands, idx, cursor, drawn) ==
    IF idx > Len(hands) THEN <<>>
    ELSE LET k == 2 - Len(hands[idx])
         IN <<hands[idx] \o SubSeq(drawn, cursor + 1, cursor + k)>>
            \o FillHands(hands, idx + 1, cursor + k, drawn)

MonteCarloGame_simulate(hands, b) ==
    LET known == SeqToSet(b) \cup UNION {SeqToSet(hands[i]) : i \in 1..Len(hands)}
        holes == SumSeq([i \in 1..Len(hands) |-> 2 - Len(hands[i])])
        missing == BoardSize - Len(b)
    IN {Deal(FillHands(hands, 1, 0, a), b \o SubSeq(a, holes + 1, holes + missing)) :
           a \in Arrangements(Cards \ known, holes + missing)}

\* One iteration of calculate_monte_carlo_equity_for_specs.
calculate_monte_carlo_equity_for_specs(player_specs, b) ==
    UNION {IF ~s.some THEN {Abandoned}
           ELSE {[valid |-> TRUE, deal |-> d] : d \in MonteCarloGame_simulate(s.hands, b)} :
           s \in sample_monte_carlo_hands_for_specs(player_specs, b)}

\* calculate_equity_from_hands with a budget of one: the single runout when
\* there is only one, else one simulated runout.
calculate_equity_from_hands(player_hands, b) ==
    LET remaining_deck == RemainingDeck(player_hands, b)
        missing == BoardSize - Len(b)
        runout_combinations == combination_count(Len(remaining_deck), missing)
    IN IF runout_combinations <= default_iterations(1)
       THEN SeqToSet(TupleDeals(player_hands, b, remaining_deck, missing))
       ELSE MonteCarloGame_simulate(player_hands, b)

\* One iteration of the sampling loop of calculate_equity_from_ranges_with_math.
calculate_equity_from_ranges_sample(player_specs, b) ==
    LET as_ranges == [i \in 1..Len(player_specs) |->
                         RangeSpec(player_ranges_of(player_specs)[i])]
    IN UNION {IF ~s.some THEN {Abandoned}
              ELSE {[valid |-> TRUE, deal |-> d] : d \in calculate_equity_from_hands(s.hands, b)} :
              s \in sample_monte_carlo_hands_for_specs(as_ranges, b)}

(* ------------------- calculate_equity of lib.rs ----------------------- *)
\* The typed entry point: two cards per player, at most BoardSize board
\* cards, no card twice; exact when the runouts fit the budget.
\* [err, mode, budget].
lib_calculate_equity(player_hands, b, iters) ==
    LET used_cards == Flatten(player_hands) \o b
        remaining_deck == DeckWithout(SeqToSet(used_cards))
        missing_board_cards == BoardSize - Len(b)
        runout_combinations == combination_count(Len(remaining_deck), missing_board_cards)
        simulation_iterations == default_iterations(iters)
        fail(e) == [err |-> e, mode |-> "", budget |-> 0]
    IN IF Len(player_hands) < 2 THEN fail(InvalidHand)
       ELSE IF \E i \in 1..Len(player_hands) : Len(player_hands[i]) # 2
       THEN fail(InvalidHand)
       ELSE IF Len(b) > BoardSize THEN fail(InvalidHand)
       ELSE IF HasDuplicates(used_cards) THEN fail(InvalidHand)
       ELSE [err |-> "",
             mode |-> IF runout_combinations <= simulation_iterations
                      THEN ExactEnumeration ELSE MonteCarlo,
             budget |-> simulation_iterations]

\* Its exact branch: calculate_exact_equity over the one tuple of hands.
\* [deals, wins, result].
lib_exact_result(player_hands, b) ==
    LET ds == TupleDeals(player_hands, b, RemainingDeck(player_hands, b), BoardSize - Len(b))
        w == CreditAll(ds, Len(player_hands))
    IN [deals |-> ds, wins |-> w, result |-> Ok(Normalise(w), "", 0)]

\* One iteration of its simulation loop: the board completed at random.
lib_simulate(ps, b) ==
    {[valid |-> TRUE, deal |-> d] :
        d \in MonteCarloGame_simulate([i \in 1..Len(ps) |-> ps[i].cards], b)}

MonteCarloOutcomes(p, ps, b) ==
    CASE p = "estimate" -> estimate_equity_monte_carlo(ps, b)
      [] p = "ranges" -> calculate_equity_from_ranges_sample(ps, b)
      [] p = "hands" -> lib_simulate(ps, b)
      [] OTHER -> calculate_monte_carlo_equity_for_specs(ps, b)

RatZeroVec(n) == <<>> \o [i \in 1..n |-> <<0, 1>>]

\* A loop end that normalises the counters whatever the sample count (used to
\* probe C11).
MonteCarloResultUniform(p, w, t, n) == Ok(Normalise(w), MonteCarlo, n)

\* The end of the sampling loops.  calculate_equity of lib.rs returns the
\* normalised counters alone; in the other three no sample is an error, the
\* range solver averages the per-sample vectors, the others normalise the
\* counters.
MonteCarloResult(p, w, t, n) ==
    IF p = "hands" THEN Ok(Normalise(w), "", 0)
    ELSE IF n = 0 THEN Err(InvalidRange)
    ELSE IF p = "ranges"
    THEN Ok([i \in 1..Len(t) |-> RatDivInt(t[i], n)], MonteCarlo, n)
    ELSE Ok(Normalise(w), MonteCarlo, n)

(* ------------------------------ inputs -------------------------------- *)
HandPool == {<<1, 2>>, <<3, 4>>, <<6, 7>>}
PartialPool == {1}
RangePool == {<< <<1, 2>> >>,
              << <<3, 4>> >>,
              << <<1, 2>>, <<1, 3>>, <<2, 3>> >>,
              << <<3, 4>>, <<5, 6>> >>,
              << <<1, 2>>, <<5, 6>> >>}
BoardPool == {<<>>, <<8>>, <<8, 9>>, <<7, 8, 9>>, <<3, 8, 9>>, <<9, 9>>, <<6, 7, 8, 9>>}
Budgets == {0, 1, 2, 12}

Descriptors ==
    {CardsInput(h) : h \in HandPool} \cup {CardsInput(<<c>>) : c \in PartialPool}
    \cup {CardsInput(<<>>)} \cup {RangeInput(r) : r \in RangePool}

Descriptors3 ==
    {CardsInput(<<1, 2>>),
     CardsInput(<<3, 4>>),
     CardsInput(<<6, 7>>),
     RangeInput(<< <<1, 2>>, <<1, 3>>, <<2, 3>> >>),
     RangeInput(<< <<3, 4>>, <<5, 6>> >>)}

\* Descriptors no player can be dealt from: one card twice, three cards, and
\* a text the range parser rejects (it expands to no hand).
FaultyDescriptors ==
    {CardsInput(<<1, 1>>), CardsInput(<<1, 2, 3>>), RangeInput(<<>>)}

\* A single player, two unknown hands next to two known ones, and two
\* one-card players next to a known hand.
OtherLists ==
    {<<CardsInput(<<1, 2>>)>>,
     <<CardsInput(<<>>)>>,
     <<CardsInput(<<1, 2>>), CardsInput(<<3, 4>>), CardsInput(<<>>), CardsInput(<<>>)>>,
     <<CardsInput(<<1, 2>>), RangeInput(<< <<3, 4>>, <<5, 6>> >>),
       RangeInput(<< <<3, 4>>, <<5, 6>> >>), CardsInput(<<6, 7>>)>>,
     <<CardsInput(<<1, 2>>), CardsInput(<<3>>), CardsInput(<<4>>)>>,
     <<CardsInput(<<1, 2>>), CardsInput(<<>>), CardsInput(<<5>>)>>,
     <<CardsInput(<<1, 2>>), CardsInput(<<3, 4>>), CardsInput(<<5, 6>>),
       CardsInput(<<7, 8>>)>>}

PlayerLists ==
    {<<a, b>> : a \in Descriptors \cup FaultyDescriptors,
                b \in Descriptors \cup FaultyDescriptors}
    \cup {<<a, b, c>> : a \in Descriptors3, b \in Descriptors3, c \in Descriptors3}
    \cup OtherLists

\* Cards an engine has to deal for an input: unknown hole cards and board slots.
DealtCards(ps, b) ==
    SumSeq([i \in 1..Len(ps) |->
               IF ps[i].kind = "Cards" /\ Len(ps[i].cards) < 2 THEN 2 - Len(ps[i].cards)
               ELSE 0])
    + Max(BoardSize - Len(b), 0)

(* ------------------------------ actions ------------------------------- *)
Init ==
    /\ api \in {"calculate", "estimate", "hands"}
    /\ board \in BoardPool
    /\ players \in PlayerLists
    /\ api = "hands" => \A i \in 1..Len(players) : players[i].kind = "Cards"
    /\ DealtCards(players, board) <= MaxDealt \/ Len(board) + 2 * Len(players) > DeckSize
    /\ iterations \in Budgets
    /\ specs = <<>>
    /\ pc = "call"
    /\ path = ""
    /\ budget = 0
    /\ count = 0
    /\ iter = 0
    /\ wins = <<>>
    /\ totals = <<>>
    /\ samples = 0
    /\ deals = <<>>
    /\ tupleWins = <<>>
    /\ evaluated = 0
    /\ chop = <<>>
    /\ result = NoResult

\* calculate_equity_with_math: parsing, validation and mode selection.
CalculateEquity ==
    /\ pc = "call"
    /\ api = "calculate"
    /\ LET r == calculate_equity_with_math(players, board, iterations)
       IN /\ specs' = r.specs
          /\ count' = r.count
          /\ budget' = r.budget
          /\ path' = IF RangesOnly(r.specs) THEN "ranges" ELSE "dynamic"
          /\ IF r.err # ""
             THEN pc' = "done" /\ result' = Err(r.err)
             ELSE /\ pc' = IF r.mode = ExactEnumeration THEN "exact" ELSE "mc"
                  /\ result' = NoResult
          /\ wins' = ZeroVec(Len(r.specs))
          /\ totals' = RatZeroVec(Len(r.specs))
          /\ chop' = ZeroVec(Len(r.specs))
    /\ UNCHANGED <<api, board, players, iterations, iter, samples, deals, tupleWins,
                   evaluated>>

\* The exact engine of calculate_equity_with_math.
CalculateExact ==
    /\ pc = "exact"
    /\ api = "calculate"
    /\ LET run == calculate_exact_result(specs, board, count)
       IN /\ deals' = run.deals
          /\ tupleWins' = run.tuple_wins
          /\ evaluated' = Len(run.deals)
          /\ chop' = ChopAll(run.deals, Len(specs))
          /\ result' = run.result
    /\ pc' = "done"
    /\ UNCHANGED <<api, board, players, specs, iterations, path, budget, count, iter,
                   wins, totals, samples>>

\* estimate_equity: parsing, validation and mode selection.
EstimateEquity ==
    /\ pc = "call"
    /\ api = "estimate"
    /\ LET r == estimate_equity(players, board, iterations)
       IN /\ specs' = r.specs
          /\ IF r.err # ""
             THEN pc' = "done" /\ result' = Err(r.err)
             ELSE /\ pc' = IF r.mode = ExactEnumeration THEN "exact" ELSE "mc"
                  /\ result' = NoResult
          /\ wins' = ZeroVec(Len(r.specs))
          /\ totals' = RatZeroVec(Len(r.specs))
          /\ chop' = ZeroVec(Len(r.specs))
    /\ path' = "estimate"
    /\ budget' = iterations
    /\ UNCHANGED <<api, board, players, iterations, count, iter, samples, deals,
                   tupleWins, evaluated>>

\* estimate_equity_exact_enumeration: pooled win counters over every deal.
EstimateExact ==
    /\ pc = "exact"
    /\ api = "estimate"
    /\ LET run == estimate_exact_result(specs, board)
       IN /\ deals' = run.deals
          /\ wins' = run.wins
          /\ samples' = Len(run.deals)
          /\ evaluated' = Len(run.deals)
          /\ chop' = ChopAll(run.deals, Len(specs))
          /\ result' = run.result
    /\ pc' = "done"
    /\ UNCHANGED <<api, board, players, specs, iterations, path, budget, count, iter,
                   totals, tupleWins>>

\* calculate_equity of lib.rs: validation and the choice of engine.
LibCalculateEquity ==
    /\ pc = "call"
    /\ api = "hands"
    /\ LET hands == [i \in 1..Len(players) |-> players[i].cards]
           r == lib_calculate_equity(hands, board, iterations)
           n == IF r.err # "" THEN 0 ELSE Len(players)
       IN /\ specs' = [i \in 1..n |-> ExactSpec(hands[i])]
          /\ budget' = r.budget
          /\ IF r.err # ""
             THEN pc' = "done" /\ result' = Err(r.err)
             ELSE /\ pc' = IF r.mode = ExactEnumeration THEN "exact" ELSE "mc"
                  /\ result' = NoResult
          /\ wins' = ZeroVec(n)
          /\ totals' = RatZeroVec(n)
          /\ chop' = ZeroVec(n)
    /\ path' = "hands"
    /\ UNCHANGED <<api, board, players, iterations, count, iter, samples, deals,
                   tupleWins, evaluated>>

\* Its exact engine: calculate_exact_equity over the one tuple of hands.
LibExact ==
    /\ pc = "exact"
    /\ api = "hands"
    /\ LET run == lib_exact_result([i \in 1..Len(specs) |-> specs[i].cards], board)
       IN /\ deals' = run.deals
          /\ wins' = run.wins
          /\ evaluated' = Len(run.deals)
          /\ chop' = ChopAll(run.deals, Len(specs))
          /\ result' = run.result
    /\ pc' = "done"
    /\ UNCHANGED <<api, board, players, specs, iterations, path, budget, count, iter,
                   totals, samples, tupleWins>>

\* The sampling loop is explored for budgets of at most MaxMCIterations.
\* An iteration first draws its cards ...
MonteCarloDeal ==
    /\ pc = "mc"
    /\ iter < budget
    /\ budget <= MaxMCIterations
    /\ \E o \in MonteCarloOutcomes(path, specs, board) :
          /\ o.valid
          /\ deals' = <<o.deal>>
    /\ pc' = "evaluate"
    /\ UNCHANGED <<api, board, players, specs, iterations, path, budget, count, iter,
                   wins, totals, samples, tupleWins, evaluated, chop, result>>

\* ... and then ranks the hands, credits the winners and counts the sample.
MonteCarloEvaluate ==
    /\ pc = "evaluate"
    /\ LET d == deals[1]
       IN /\ wins' = IntVecAdd(wins, Credit(d.hands, d.board))
          /\ totals' = VecAdd(totals, Normalise(Credit(d.hands, d.board)))
          /\ chop' = IntVecAdd(chop, ChopShare(d.hands, d.board))
    /\ deals' = <<>>
    /\ samples' = samples + 1
    /\ evaluated' = evaluated + 1
    /\ iter' = iter + 1
    /\ pc' = "mc"
    /\ UNCHANGED <<api, board, players, specs, iterations, path, budget, count,
                   tupleWins, result>>

\* An abandoned iteration that is counted as a sample all the same (used to
\* probe C25).
MonteCarloAbandonCounted ==
    /\ pc = "mc"
    /\ iter < budget
    /\ budget <= MaxMCIterations
    /\ \E o \in MonteCarloOutcomes(path, specs, board) : ~o.valid
    /\ iter' = iter + 1
    /\ samples' = samples + 1
    /\ UNCHANGED <<api, board, players, specs, iterations, pc, path, budget, count, wins,
                   totals, deals, tupleWins, evaluated, chop, result>>

\* One iteration that is abandoned (continue): only the loop counter moves.
MonteCarloAbandon ==
    /\ pc = "mc"
    /\ iter < budget
    /\ budget <= MaxMCIterations
    /\ \E o \in MonteCarloOutcomes(path, specs, board) : ~o.valid
    /\ iter' = iter + 1
    /\ UNCHANGED <<api, board, players, specs, iterations, pc, path, budget, count, wins,
                   totals, samples, deals, tupleWins, evaluated, chop, result>>

\* The end of the sampling loop: no sample is an error, else the percentages.
MonteCarloFinish ==
    /\ pc = "mc"
    /\ iter = budget
    /\ result' = MonteCarloResult(path, wins, totals, samples)
    /\ pc' = "done"
    /\ UNCHANGED <<api, board, players, specs, iterations, path, budget, count, iter,
                   wins, totals, samples, deals, tupleWins, evaluated, chop>>

Next ==
    \/ MonteCarloDeal
    \/ MonteCarloEvaluate
    \/ MonteCarloAbandon
    \/ MonteCarloFinish
    \/ CalculateEquity
    \/ CalculateExact
    \/ EstimateEquity
    \/ EstimateExact
    \/ LibCalculateEquity
    \/ LibExact

Spec == Init /\ [][Next]_vars

(* --------------------- parsing a written descriptor -------------------- *)
Texts == UNION {[1..n -> TextAlphabet] : n \in 0..MaxTextLen}
ParseBoards == {<<>>, <<1, 2>>}

ParseInit ==
    /\ api = "parse"
    /\ board \in ParseBoards
    /\ players \in {<<t>> : t \in Texts}
    /\ iterations = 0
    /\ specs = <<>>
    /\ pc = "call"
    /\ path = ""
    /\ budget = 0
    /\ count = 0
    /\ iter = 0
    /\ wins = <<>>
    /\ totals = <<>>
    /\ samples = 0
    /\ deals = <<>>
    /\ tupleWins = <<>>
    /\ evaluated = 0
    /\ chop = <<>>
    /\ result = NoResult

\* parse_player_hand_input on the one descriptor of the call: path tells
\* whether the text was classified by its cards or handed to the range parser.
ParsePlayerHandInput ==
    /\ pc = "call"
    /\ api = "parse"
    /\ LET r == parse_player_hand_input_str(players[1], SeqToSet(board))
       IN /\ path' = IF r.range_parser THEN "range_parser" ELSE "cards"
          /\ specs' = IF r.range_parser \/ r.err # "" THEN <<>> ELSE <<r.spec>>
          /\ result' = IF r.range_parser THEN NoResult
                       ELSE IF r.err # "" THEN Err(r.err)
                       ELSE Ok(<<>>, "", 0)
    /\ pc' = "done"
    /\ UNCHANGED <<api, board, players, iterations, budget, count, iter, wins, totals,
                   samples, deals, tupleWins, evaluated, chop>>

ParseNext == ParsePlayerHandInput

ParseSpec == ParseInit /\ [][ParseNext]_vars

(* ------------------ combinations of a slice of cards ------------------- *)
\* Slices of distinct cards: every arrangement of up to MaxSliceArranged
\* cards, and the deck and its reverse cut to every length up to MaxSliceLen.
Slices ==
    UNION {Arrangements(Cards, n) : n \in 0..MaxSliceArranged}
    \cup {SubSeq(all_cards, 1, n) : n \in 0..Min(MaxSliceLen, DeckSize)}
    \cup {[i \in 1..n |-> all_cards[DeckSize + 1 - i]] : n \in 1..Min(MaxSliceLen, DeckSize)}

CombinationInit ==
    /\ api = "combinations"
    /\ board \in Slices
    /\ budget \in 0..(Len(board) + 1)
    /\ players = <<>>
    /\ iterations = 0
    /\ specs = <<>>
    /\ pc = "call"
    /\ path = ""
    /\ count = 0
    /\ iter = 0
    /\ wins = <<>>
    /\ totals = <<>>
    /\ samples = 0
    /\ deals = <<>>
    /\ tupleWins = <<>>
    /\ evaluated = 0
    /\ chop = <<>>
    /\ result = NoResult

\* Both for_each_combination functions on the slice board with k = budget:
\* the slices each hands to its callback, in call order.
ForEachCombination ==
    /\ pc = "call"
    /\ api = "combinations"
    /\ result' = [ok |-> TRUE,
                  recursive |-> for_each_combination(board, budget),
                  indexed |-> for_each_combination_indexed(board, budget)]
    /\ pc' = "done"
    /\ UNCHANGED <<api, board, players, specs, iterations, path, budget, count, iter, wins,
                   totals, samples, deals, tupleWins, evaluated, chop>>

CombinationSpec == CombinationInit /\ [][ForEachCombination]_vars

(* ------------- the binomial helpers at the width of usize -------------- *)
\* usize is 32 bits wide in the WebAssembly build (bindings/wasm) and 64 bits
\* wide in the native ones.  Numbers of that size are kept as eight 16-bit
\* limbs, lowest first, which is also the width of the u128 accumulator.
LimbBase == 2^16
Limbs == 1..8

UsizeBits(target) == IF target = "wasm32" THEN 32 ELSE 64

Wide(x) == <<x % LimbBase, x \div LimbBase, 0, 0, 0, 0, 0, 0>>

\* usize::MAX of a width.
WideMax(bits) ==
    <<>> \o [j \in Limbs |-> IF j <= bits \div 16 THEN LimbBase - 1 ELSE 0]

\* The value is at most usize::MAX of the width.
FitsIn(x, bits) == \A j \in Limbs : j > bits \div 16 => x[j] = 0

\* x * m for a small m.
RECURSIVE MulLimbs(_, _, _, _, _)
MulLimbs(x, m, j, carry, out) ==
    IF j > 8 THEN out
    ELSE LET t == x[j] * m + carry
         IN MulLimbs(x, m, j + 1, t \div LimbBase, Append(out, t % LimbBase))

WideMul(x, m) == MulLimbs(x, m, 1, 0, <<>>)

\* x / d and x % d for a small d, from the highest limb down.
RECURSIVE DivLimbs(_, _, _, _, _)
DivLimbs(x, d, j, rem, out) ==
    IF j < 1 THEN [q |-> out, r |-> rem]
    ELSE LET t == rem * LimbBase + x[j]
         IN DivLimbs(x, d, j - 1, t % d, <<t \div d>> \o out)

WideDiv(x, d) == DivLimbs(x, d, 8, 0, <<>>)

\* One pass of the loop of n_choose_k at a width:
\* result = result.saturating_mul(n - i) / (i + 1).  The record tells whether
\* a product saturated and whether a division left a remainder.
n_choose_k_step(acc, n, i, bits) ==
    LET product == WideMul(acc.value, n - i)
        fits == FitsIn(product, bits)
        d == WideDiv(IF fits THEN product ELSE WideMax(bits), i + 1)
    IN [value |-> d.q,
        saturated |-> acc.saturated \/ ~fits,
        inexact |-> acc.inexact \/ d.r # 0]

\* One pass of the loop of combination_count at a width: a u128 accumulator,
\* usize::MAX returned as soon as it is exceeded (saturated: it has returned).
combination_count_step(acc, n, i, bits) ==
    LET d == WideDiv(WideMul(acc.value, n - i), i + 1)
    IN IF acc.saturated THEN acc
       ELSE IF ~FitsIn(d.q, bits)
       THEN [value |-> WideMax(bits), saturated |-> TRUE,
             inexact |-> acc.inexact \/ d.r # 0]
       ELSE [value |-> d.q, saturated |-> FALSE, inexact |-> acc.inexact \/ d.r # 0]

WideStart(x) == [value |-> Wide(x), saturated |-> FALSE, inexact |-> FALSE]

Helpers(x) == [n_choose_k |-> WideStart(x), combination_count |-> WideStart(x)]

Targets == {"wasm32", "native64"}

\* n = count and k = budget; both helpers run side by side on the target
\* path names, iter is the loop variable i.
BinomialInit ==
    /\ api = "binomial"
    /\ path \in Targets
    /\ count \in 0..MaxBinomialN
    /\ budget \in 0..MaxBinomialN
    /\ board = <<>>
    /\ players = <<>>
    /\ iterations = 0
    /\ specs = <<>>
    /\ pc = "call"
    /\ iter = 0
    /\ wins = <<>>
    /\ totals = <<>>
    /\ samples = 0
    /\ deals = <<>>
    /\ tupleWins = <<>>
    /\ evaluated = 0
    /\ chop = <<>>
    /\ result = Helpers(0)

\* let k = k.min(n - k)
LoopBound == Min(budget, count - budget)

\* The early returns: 0 for k > n, 1 for k = 0 and k = n; the loop otherwise.
BinomialCall ==
    /\ pc = "call"
    /\ api = "binomial"
    /\ IF budget > count THEN result' = Helpers(0) /\ pc' = "done"
       ELSE IF budget = 0 \/ budget = count THEN result' = Helpers(1) /\ pc' = "done"
       ELSE result' = Helpers(1) /\ pc' = "loop"
    /\ UNCHANGED <<api, board, players, specs, iterations, path, budget, count, iter, wins,
                   totals, samples, deals, tupleWins, evaluated, chop>>

\* One pass of both loops.
BinomialLoop ==
    /\ pc = "loop"
    /\ api = "binomial"
    /\ iter < LoopBound
    /\ result' = [n_choose_k |->
                      n_choose_k_step(result.n_choose_k, count, iter, UsizeBits(path)),
                  combination_count |->
                      combination_count_step(result.combination_count, count, iter,
                                             UsizeBits(path))]
    /\ iter' = iter + 1
    /\ UNCHANGED <<api, board, players, specs, iterations, pc, path, budget, count, wins,
                   totals, samples, deals, tupleWins, evaluated, chop>>

BinomialReturn ==
    /\ pc = "loop"
    /\ api = "binomial"
    /\ iter >= LoopBound
    /\ pc' = "done"
    /\ UNCHANGED <<api, board, players, specs, iterations, path, budget, count, iter, wins,
                   totals, samples, deals, tupleWins, evaluated, chop, result>>

BinomialNext == BinomialCall \/ BinomialLoop \/ BinomialReturn

BinomialSpec == BinomialInit /\ [][BinomialNext]_vars

(* ---------------------- the deals a call stands for -------------------- *)
\* The two-card hands a descriptor allows, as card sets.
Options(input) ==
    IF input.kind = "Range"
    THEN {HandCards(h) : h \in {x \in SeqToSet(input.range) : x[1] # x[2]}}
    ELSE CASE Len(input.cards) = 0 -> {S \in SUBSET Cards : Cardinality(S) = 2}
           [] Len(input.cards) = 1 -> {{input.cards[1], x} : x \in Cards \ {input.cards[1]}}
           [] Len(input.cards) = 2 /\ input.cards[1] # input.cards[2] ->
                  {SeqToSet(input.cards)}
           [] OTHER -> {}

\* Every tuple of pairwise disjoint hands, one per player, clear of the board.
RECURSIVE TuplesFrom(_, _, _)
TuplesFrom(inputs, idx, used) ==
    IF idx > Len(inputs) THEN {<<>>}
    ELSE UNION {{<<h>> \o t : t \in TuplesFrom(inputs, idx + 1, used \cup h)} :
                h \in {x \in Options(inputs[idx]) : x \cap used = {}}}

AllTuples == TuplesFrom(players, 1, SeqToSet(board))

\* T: the true number of valid per-player hand tuples.
TrueTuples == Cardinality(AllTuples)

\* Every deal: a tuple and a completion of the board from the cards left.
AllDeals ==
    UNION {LET left == Cards \ (SeqToSet(board) \cup UNION {t[i] : i \in 1..Len(t)})
           IN {[hands |-> t, board |-> SeqToSet(board) \cup r] :
                  r \in {x \in SUBSET left : Cardinality(x) = BoardSize - Len(board)}} :
           t \in AllTuples}

\* A deal as card sets: who holds what, and what lies on the board.
Canon(d) ==
    [hands |-> [i \in 1..Len(d.hands) |-> HandCards(d.hands[i])], board |-> SeqToSet(d.board)]

\* C(DeckSize - len(board) - 2N, BoardSize - len(board)), by the factorial formula.
Binomial(n, k) ==
    IF k < 0 \/ k > n THEN 0 ELSE Factorial(n) \div (Factorial(k) * Factorial(n - k))
Runouts == Binomial(DeckSize - Len(board) - 2 * Len(players), BoardSize - Len(board))

\* B: the budget, 0 replaced by the default.
EffectiveBudget == IF iterations = 0 THEN DefaultIterations ELSE iterations

Succeeded == pc = "done" /\ result.ok
ExactDone == Succeeded /\ result.mode = ExactEnumeration
Dispatched == pc \in {"exact", "mc"} /\ iter = 0

\* The entry points that report the mode and the sample count.
ReportsMath == api \in {"calculate", "estimate"}

\* C1: in every deal an engine evaluates, the 2N hole cards and the full board
\* are 2N + BoardSize pairwise distinct cards of the deck.
C1_DealsHaveDistinctCards ==
    \A j \in 1..Len(deals) :
        LET cs == Flatten(deals[j].hands) \o deals[j].board
        IN /\ Len(deals[j].hands) = Len(players)
           /\ \A i \in 1..Len(deals[j].hands) : Len(deals[j].hands[i]) = 2
           /\ Len(deals[j].board) = BoardSize
           /\ SeqToSet(cs) \subseteq Cards
           /\ Cardinality(SeqToSet(cs)) = 2 * Len(players) + BoardSize

\* A Monte Carlo iteration of a call with a Range and a Partial player has
\* drawn its cards and is about to be counted.
C1_Witness ==
    /\ pc = "evaluate"
    /\ \E i \in 1..Len(specs) : specs[i].kind = "Range" /\ Len(specs[i].range) > 1
    /\ \E i \in 1..Len(specs) : specs[i].kind = "Partial"
    /\ Len(deals[1].board) > Len(board)

\* C2: a successful call returns one equity per player, each within 0..100,
\* summing to 100; an exact run that counted no deal returns 100/N each.
C2_EquitiesSumTo100 ==
    Succeeded =>
        /\ Len(result.equities) = Len(players)
        /\ \A i \in 1..Len(players) :
               RatLeq(<<0, 1>>, result.equities[i]) /\ RatLeq(result.equities[i], <<100, 1>>)
        /\ RatSum(result.equities) = <<100, 1>>
        /\ (result.mode = ExactEnumeration /\ evaluated = 0
               => \A i \in 1..Len(players) : result.equities[i] = Rat(100, Len(players)))

\* An exact run that counted no deal (every range hand met a later player's
\* cards) and returned the uniform split among three players.
C2_Witness ==
    /\ ExactDone
    /\ evaluated = 0
    /\ Len(players) = 3
    /\ \A i \in 1..3 : result.equities[i] = <<100, 3>>

\* C3: calculate_equity_with_math runs the exact engine iff
\* 1 <= T <= floor(B / runouts), and otherwise Monte Carlo with exactly B
\* iterations, B being the budget with 0 replaced by the default.
C3_ModeSelection ==
    api = "calculate" /\ Dispatched =>
        /\ Runouts > 0
        /\ (pc = "exact") <=> (1 <= TrueTuples /\ TrueTuples <= EffectiveBudget \div Runouts)
        /\ pc = "mc" => TrueTuples > EffectiveBudget \div Runouts /\ budget = EffectiveBudget

\* Monte Carlo chosen although the tuples alone would fit the budget: only
\* the product with the runouts exceeds it.
C3_Witness ==
    /\ api = "calculate"
    /\ Dispatched
    /\ pc = "mc"
    /\ Runouts > 1
    /\ TrueTuples <= EffectiveBudget
    /\ TrueTuples > EffectiveBudget \div Runouts

\* C4: each player's equity is 100 * (1/D) * the sum over the D evaluated
\* deals of 1/k when the player is one of the k players tying the maximum.
C4_TieAttribution ==
    Succeeded /\ evaluated > 0 =>
        \A i \in 1..Len(players) :
            result.equities[i] = Rat(100 * chop[i], Factorial(Len(players)) * evaluated)

\* C5: the exact engine evaluates every possible deal exactly once and no
\* other deal.
C5_EveryDealExactlyOnce ==
    ExactDone =>
        /\ Cardinality({Canon(deals[j]) : j \in 1..Len(deals)}) = Len(deals)
        /\ {Canon(deals[j]) : j \in 1..Len(deals)} = AllDeals

\* The equity vector of one tuple of hands: its own deals, normalised.
TupleEquity(hands) ==
    Normalise(CreditAll(SelectSeq(deals, LAMBDA d : d.hands = hands), Len(players)))
EnumeratedTuples == {deals[j].hands : j \in 1..Len(deals)}

\* C6: when more than one tuple is enumerated, the result is the unweighted
\* mean of the tuples' own equity vectors.
C6_MeanOfTupleVectors ==
    ExactDone /\ Cardinality(EnumeratedTuples) > 1 =>
        \A i \in 1..Len(players) :
            result.equities[i] =
                RatDivInt(RatSum(<<>> \o [k \in 1..Len(deals) |->
                                     IF \E m \in 1..(k - 1) : deals[m].hands = deals[k].hands
                                     THEN <<0, 1>>
                                     ELSE TupleEquity(deals[k].hands)[i]]),
                          Cardinality(EnumeratedTuples))

\* A full board and every player given two cards, all cards distinct.
ExactRiver ==
    /\ Len(board) = BoardSize
    /\ \A i \in 1..Len(players) : players[i].kind = "Cards" /\ Len(players[i].cards) = 2
    /\ Cardinality(SeqToSet(board) \cup UNION {SeqToSet(players[i].cards) :
                                                  i \in 1..Len(players)})
           = BoardSize + 2 * Len(players)

\* C7: on a full board with only Exact players the exact engine runs for
\* every budget and reports exactly one state.
C7_ExactRiverOneState ==
    ReportsMath /\ ExactRiver /\ pc # "call" =>
        \/ pc = "exact"
        \/ ExactDone /\ result.samples = 1

\* C8: a budget of 0 is treated as the default: the engines are entered with
\* a budget of DefaultIterations and the call does not fail for lack of samples.
C8_ZeroBudgetIsDefault ==
    iterations = 0 =>
        /\ pc \in {"exact", "mc", "evaluate"} => budget = DefaultIterations
        /\ pc = "done" /\ AllTuples # {} /\ Runouts > 0 /\ ExactRiver => result.ok

\* The number of deals the exact engine of estimate_equity enumerates.
EnumeratedByEstimate ==
    Len(estimate_equity_exact_enumeration(specs, board, SeqToSet(board) \cup KnownCards(specs)))

\* C9: estimate_equity runs the exact engine iff the number of deals that
\* engine enumerates is at least 1 and at most iterations.
C9_EstimateExactWhenAffordable ==
    api = "estimate" /\ Dispatched =>
        ((pc = "exact") <=> (1 <= EnumeratedByEstimate /\ EnumeratedByEstimate <= iterations))

\* C10: the reported sample count is the number of deals evaluated: T times
\* the runouts in exact mode, between 1 and B in Monte Carlo mode.
C10_SamplesAreDealsEvaluated ==
    ReportsMath /\ Succeeded =>
        /\ result.samples = evaluated
        /\ result.mode = ExactEnumeration => result.samples = TrueTuples * Runouts
        /\ result.mode = MonteCarlo => 1 <= result.samples /\ result.samples <= EffectiveBudget

\* C11: a sampling loop that ends with no valid sample returns InvalidRange,
\* never an equity vector.
C11_ZeroSamplesIsError ==
    [][pc = "mc" /\ pc' = "done" /\ samples = 0
          => ~result'.ok /\ result'.err = InvalidRange /\ result'.equities = <<>>]_vars

\* A sampling loop whose every iteration was abandoned has returned.
C11_Witness ==
    /\ pc = "done"
    /\ iter > 0
    /\ iter = budget
    /\ samples = 0
    /\ result.err = InvalidRange

\* The cards the call fixes: the board and the cards of the players given
\* one or two cards.
KnownCardSeq ==
    board \o Flatten([i \in 1..Len(players) |->
                         IF players[i].kind = "Cards" /\ Len(players[i].cards) \in {1, 2}
                         THEN players[i].cards ELSE <<>>])
KnownDuplicate == HasDuplicates(KnownCardSeq)

\* estimate_equity takes a hero of one or two cards.
HeroAccepted ==
    api = "estimate" => players[1].kind = "Cards" /\ Len(players[1].cards) \in {1, 2}

\* An input with no fault of its own: enough players, a board of an accepted
\* length, descriptors of an accepted form, no card fixed twice, enough cards
\* for the hands and for a runout.
Admissible ==
    /\ Len(players) >= 2
    /\ Len(board) \in ValidBoardLens
    /\ \A i \in 1..Len(players) : players[i].kind = "Cards" => Len(players[i].cards) <= 2
    /\ ~KnownDuplicate
    /\ HeroAccepted
    /\ Len(board) + 2 * Len(players) <= DeckSize
    /\ Runouts > 0

\* C12: when no choice of one hand per player is free of collisions (T = 0),
\* the call never returns an equity vector; it returns InvalidRange when the
\* input has no other fault.
C12_NoTupleIsInvalidRange ==
    pc = "done" /\ TrueTuples = 0 =>
        /\ ~result.ok
        /\ Admissible => result.err = InvalidRange

(* --------------------- a call answered exactly, whole ------------------ *)
\* What entry point a returns for an input when it stays in exact mode, and
\* the deals it evaluates; NoResult when the call goes to the sampling loop.
ExactAnswer(a, inputs, b, iters) ==
    LET none(r) == [deals |-> <<>>, result |-> r]
        some(run) == [deals |-> run.deals, result |-> run.result]
        pick(err, mode, run) ==
            IF err # "" THEN none(Err(err))
            ELSE IF mode # ExactEnumeration THEN none(NoResult)
            ELSE some(run)
    IN CASE a = "calculate" ->
               LET r == calculate_equity_with_math(inputs, b, iters)
               IN pick(r.err, r.mode, calculate_exact_result(r.specs, b, r.count))
         [] a = "estimate" ->
               LET r == estimate_equity(inputs, b, iters)
               IN pick(r.err, r.mode, estimate_exact_result(r.specs, b))
         [] OTHER ->
               LET hands == [i \in 1..Len(inputs) |-> inputs[i].cards]
                   r == lib_calculate_equity(hands, b, iters)
               IN pick(r.err, r.mode, lib_exact_result(hands, b))

\* Every player is given two cards.
AllExactInput ==
    \A i \in 1..Len(players) : players[i].kind = "Cards" /\ Len(players[i].cards) = 2

\* The same hands as one-hand ranges; estimate_equity keeps its hero as given.
AsSingletonRanges(inputs, from) ==
    [i \in 1..Len(inputs) |->
        IF i >= from THEN RangeInput(<<inputs[i].cards>>) ELSE inputs[i]]

\* C13: an all-Exact input solved by the exact engine and the same hands
\* given as one-hand ranges yield the same mode and the same equity vector.
C13_SingletonRangesAgree ==
    ReportsMath /\ ExactDone /\ AllExactInput =>
        LET from == IF api = "estimate" THEN 2 ELSE 1
            other == ExactAnswer(api, AsSingletonRanges(players, from), board, iterations).result
        IN /\ other.ok
           /\ other.mode = result.mode
           /\ other.equities = result.equities

\* An all-Exact call of calculate_equity_with_math answered exactly over
\* several runouts, with unequal equities.
C13_Witness ==
    /\ api = "calculate"
    /\ ExactDone
    /\ AllExactInput
    /\ Len(board) < BoardSize
    /\ evaluated > 1
    /\ result.equities[1] # result.equities[2]

\* The orders in which the players can be listed: every permutation of the
\* positions; estimate_equity keeps its hero first.
Orderings(n) ==
    {pi \in [1..n -> 1..n] : \A i, j \in 1..n : pi[i] = pi[j] => i = j}
PlayerOrders ==
    {pi \in Orderings(Len(players)) : api = "estimate" => pi[1] = 1}
Permuted(inputs, pi) == [i \in 1..Len(inputs) |-> inputs[pi[i]]]

\* The call returned an equity vector without entering a sampling loop.
AnsweredExactly == Succeeded /\ iter = 0

\* C14: in exact mode, listing the players in another order returns the
\* same equities in that order.
C14_PermutationEquivariant ==
    AnsweredExactly =>
        \A pi \in PlayerOrders :
            LET other == ExactAnswer(api, Permuted(players, pi), board, iterations).result
            IN /\ other.ok
               /\ other.mode = result.mode
               /\ \A i \in 1..Len(players) : other.equities[i] = result.equities[pi[i]]

C16_DuplicateKnownCardFails ==
    KnownDuplicate =>
        /\ pc \in {"call", "done"}
        /\ evaluated = 0 /\ iter = 0 /\ deals = <<>>
        /\ pc = "done" =>
               /\ ~result.ok
               /\ (\A i \in 1..Len(players) : players[i].kind = "Cards")
                      => result.err = InvalidHand

\* A call rejected for a card that a one-card player shares with another
\* player's hand, the board being in order.
C16_Witness ==
    /\ pc = "done"
    /\ result.err = InvalidHand
    /\ Len(board) \in ValidBoardLens /\ ~HasDuplicates(board)
    /\ Len(players) = 2
    /\ \E i, j \in 1..2 :
           /\ i # j
           /\ players[i].kind = "Cards" /\ Len(players[i].cards) = 1
           /\ players[j].kind = "Cards" /\ Len(players[j].cards) = 2
           /\ players[j].cards[1] # players[j].cards[2]
           /\ players[i].cards[1] \in SeqToSet(players[j].cards)
           /\ SeqToSet(players[j].cards) \cap SeqToSet(board) = {}

\* A range descriptor that leaves no hand once the board is taken out.
RangeFault ==
    \E i \in 1..Len(players) :
        /\ players[i].kind = "Range"
        /\ \A k \in 1..Len(players[i].range) :
               \/ players[i].range[k][1] = players[i].range[k][2]
               \/ SeqToSet(players[i].range[k]) \cap SeqToSet(board) # {}

WithinBounds ==
    Len(players) >= 2 /\ 2 * Len(players) + Len(board) <= DeckSize

C17_WitnessOnePlayer ==
    pc = "done" /\ Len(players) = 1 /\ result.err = InvalidHand

C18_WitnessThinned ==
    /\ Succeeded
    /\ \E i \in 1..Len(specs) :
           /\ specs[i].kind = "Range"
           /\ Len(specs[i].range) < Len(players[i].range)
           /\ \E k \in 1..Len(players[i].range) :
                  SeqToSet(players[i].range[k]) \cap SeqToSet(board) # {}

\* C19: a board that is neither empty nor a flop, turn or river (0 or
\* FlopSize..BoardSize cards), or that holds a card twice, is rejected with
\* InvalidHand by every entry point, so that no engine runs on such a board.
C19_BoardLengthChecked ==
    Len(board) \notin ValidBoardLens \/ HasDuplicates(board) =>
        /\ pc \in {"call", "done"}
        /\ evaluated = 0 /\ deals = <<>>
        /\ pc = "done" => ~result.ok /\ result.err = InvalidHand

\* A descriptor with its white space and commas taken out, and whether what
\* is left is a row of card tokens: one value character and one suit
\* character each.
WithoutSeparators(text) == SelectSeq(text, LAMBDA c : c \notin Whitespace /\ c # ",")
IsCardToken(a, b) == a \in SeqToSet(TextValues) /\ b \in SeqToSet(TextSuits)
CardTokens(text) ==
    LET t == WithoutSeparators(text)
    IN IF t # <<>> /\ Len(t) % 2 = 0
          /\ \A j \in 1..(Len(t) \div 2) : IsCardToken(t[2 * j - 1], t[2 * j])
       THEN Len(t) \div 2
       ELSE 0
WhitespaceOnly(text) == \A i \in 1..Len(text) : text[i] \in Whitespace

\* C20: a descriptor of white space only parses to Unknown, one card token
\* to Partial, two card tokens (separated or not) to Exact unless the cards
\* are equal or on the board, three or more card tokens are an error, and
\* every other text is handed to the range parser.
C20_DescriptorClassification ==
    pc = "done" =>
        LET text == players[1]
            n == CardTokens(text)
        IN IF WhitespaceOnly(text) THEN specs = <<UnknownSpec>>
           ELSE IF n = 1 THEN \/ specs # <<>> /\ specs[1].kind = "Partial"
                              \/ result.err = InvalidHand
           ELSE IF n = 2 THEN \/ specs # <<>> /\ specs[1].kind = "Exact"
                              \/ result.err = InvalidHand
           ELSE IF n >= 3 THEN result.err = InvalidHand
           ELSE path = "range_parser"

\* C21: the count the mode selector obtains is min(T, max_exclusive), T being
\* the number of valid hand tuples and max_exclusive = floor(B / runouts) + 1
\* the bound it passes, for every mix of player kinds.
C21_CountIsBoundedTupleCount ==
    /\ api = "calculate" /\ pc # "call" /\ specs # <<>>
    /\ Len(board) + 2 * Len(players) <= DeckSize
    /\ Runouts > 0
    => count = Min(TrueTuples, EffectiveBudget \div Runouts + 1)

\* The search cut short: the count stopped at a bound of at least 2 with
\* tuples left over, among players not all given as hands or ranges.
C21_Witness ==
    /\ api = "calculate" /\ pc # "call" /\ path = "dynamic"
    /\ count = EffectiveBudget \div Runouts + 1
    /\ count >= 2
    /\ count < TrueTuples

\* The same for players all given as hands or ranges.
C21_WitnessRanges ==
    /\ api = "calculate" /\ pc # "call" /\ path = "ranges" /\ specs # <<>>
    /\ Runouts > 0
    /\ count = EffectiveBudget \div Runouts + 1
    /\ count < TrueTuples

\* The tuples the exact engine of calculate_equity_with_math was handed, in
\* the order of the calls: every tuple is followed by its Runouts deals.
TuplesSeen ==
    [t \in 1..Len(tupleWins) |-> deals[(t - 1) * Runouts + 1].hands]

\* Where a hand stands in its player's loop: its place in the written range,
\* or its two cards as positions of the deck.
HandKey(i, hand) ==
    IF specs[i].kind = "Range"
    THEN <<CHOOSE k \in 1..Len(specs[i].range) : specs[i].range[k] = hand, 0>>
    ELSE hand
TupleKey(t) == Flatten([i \in 1..Len(t) |-> HandKey(i, t[i])])
LexLess(u, v) ==
    \E k \in 1..Len(u) : u[k] < v[k] /\ \A j \in 1..(k - 1) : u[j] = v[j]

CalculateExactDone == api = "calculate" /\ ExactDone

\* C22: the exact engine of calculate_equity_with_math is handed every valid
\* hand tuple once and nothing else, one hand per player in player order,
\* in the lexicographic order of player index, range order and deck order
\* (each range lists a combination once).
C22_EnumerateEveryTupleInOrder ==
    CalculateExactDone =>
        /\ Len(deals) = Len(tupleWins) * Runouts
        /\ \A t \in 1..Len(tupleWins) :
               /\ Len(TuplesSeen[t]) = Len(players)
               /\ \A r \in 1..Runouts :
                      deals[(t - 1) * Runouts + r].hands = TuplesSeen[t]
        /\ {[i \in 1..Len(players) |-> HandCards(TuplesSeen[t][i])] :
                t \in 1..Len(tupleWins)} = AllTuples
        /\ Len(tupleWins) = TrueTuples
        /\ \A t \in 1..(Len(tupleWins) - 1) :
               LexLess(TupleKey(TuplesSeen[t]), TupleKey(TuplesSeen[t + 1]))

\* An exact run over a range of several hands next to a player whose cards
\* are dealt, with more tuples than either player has hands.
C22_Witness ==
    /\ CalculateExactDone
    /\ path = "dynamic"
    /\ \E i \in 1..Len(specs) : specs[i].kind = "Range" /\ Len(specs[i].range) >= 2
    /\ Len(tupleWins) >= 4
    /\ TuplesSeen[1][1] # TuplesSeen[Len(tupleWins)][1]

\* An exact run over ranges only, with a tuple left out for a collision.
C22_WitnessRanges ==
    /\ CalculateExactDone
    /\ path = "ranges"
    /\ Len(tupleWins) >= 2
    /\ \E i \in 1..Len(specs) :
           specs[i].kind = "Range" /\ Len(specs[i].range) >= 2
           /\ \E j \in 1..Len(specs) :
                  /\ j # i /\ specs[j].kind = "Range"
                  /\ SeqToSet(specs[i].range) \cap SeqToSet(specs[j].range) # {}

\* The bound the mode selector hands to the count.
MaxExclusive == EffectiveBudget \div Runouts + 1

\* The calls of calculate_equity_with_math that reached the count of the
\* mixed-player solver.
CountedDynamic ==
    /\ api = "calculate" /\ pc # "call" /\ path = "dynamic" /\ specs # <<>>
    /\ Len(board) + 2 * Len(players) <= DeckSize
    /\ Runouts > 0

\* C23: in the count and in the enumeration of the mixed-player solver, every
\* frame is entered with used_cards equal to the board plus the cards of the
\* idx hands selected so far, and when the search returns, cut short at
\* max_exclusive or not, used_cards is the board again (and selected_hands is
\* empty).  The searches walked this way give the count and the tuples the
\* solver works with.
C23_PushPopDiscipline ==
    /\ CountedDynamic =>
           LET w == count_walk(specs, board, MaxExclusive)
           IN /\ w.entered
              /\ w.used = SeqToSet(board)
              /\ w.count = count
    /\ CountedDynamic /\ pc = "done" /\ result.ok /\ result.mode = ExactEnumeration =>
           LET e == enum_walk(specs, board)
           IN /\ e.entered
              /\ e.used = SeqToSet(board)
              /\ e.selected = <<>>
              /\ e.out = for_each_valid_assignment_for_specs(specs, board)
              /\ e.out = TuplesSeen

\* A count cut short below a Range player, with a Partial or Unknown player
\* above or below it.
C23_Witness ==
    /\ CountedDynamic
    /\ count_walk(specs, board, MaxExclusive).reached
    /\ count >= 2
    /\ \E i \in 1..Len(specs) : specs[i].kind = "Range" /\ Len(specs[i].range) >= 2

\* An enumeration that ran to its end over three players.
C23_WitnessEnumerate ==
    /\ CountedDynamic /\ pc = "done" /\ result.ok /\ result.mode = ExactEnumeration
    /\ Len(specs) = 3
    /\ Len(tupleWins) >= 2

\* A Monte Carlo iteration of estimate_equity with its deal drawn.
EstimateDealt == api = "estimate" /\ pc = "evaluate"

\* The cards an iteration of estimate_equity_monte_carlo starts from, and
\* the hands its Range players hold in the deal at hand.
FixedCards == SeqToSet(board) \cup KnownCards(specs)
RangeCardsChosen ==
    UNION {HandCards(deals[1].hands[i]) :
              i \in {j \in 1..Len(specs) : specs[j].kind = "Range"}}

\* The cards the second pass dealt: the second card of a Partial player,
\* both cards of an Unknown player, the board cards added.
CardsFromAvailable ==
    Flatten([i \in 1..Len(specs) |->
                CASE specs[i].kind = "Partial" -> <<deals[1].hands[i][2]>>
                  [] specs[i].kind = "Unknown" -> deals[1].hands[i]
                  [] OTHER -> <<>>])
    \o SubSeq(deals[1].board, Len(board) + 1, Len(deals[1].board))

\* C24: in an iteration of estimate_equity_monte_carlo every Range player
\* holds a hand of its range that is clear of the board and of every known
\* card, and the cards dealt to Partial and Unknown players and to the
\* missing board slots are distinct cards outside the board, the known cards
\* and the Range hands of this iteration.
C24_TwoPassDeal ==
    EstimateDealt =>
        /\ \A i \in 1..Len(specs) :
               /\ specs[i].kind = "Range" =>
                      /\ deals[1].hands[i] \in SeqToSet(specs[i].range)
                      /\ HandCards(deals[1].hands[i]) \cap FixedCards = {}
               /\ specs[i].kind = "Exact" => deals[1].hands[i] = specs[i].cards
               /\ specs[i].kind = "Partial" => deals[1].hands[i][1] = specs[i].cards[1]
        /\ SubSeq(deals[1].board, 1, Len(board)) = board
        /\ Len(deals[1].board) = BoardSize
        /\ SeqToSet(CardsFromAvailable) \cap (FixedCards \cup RangeCardsChosen) = {}
        /\ ~HasDuplicates(CardsFromAvailable)

\* A deal with a Range player of several hands, a player whose cards are
\* dealt, and a board card dealt.
C24_Witness ==
    /\ EstimateDealt
    /\ \E i \in 1..Len(specs) : specs[i].kind = "Range" /\ Len(specs[i].range) >= 2
    /\ \E i \in 1..Len(specs) : specs[i].kind \in {"Partial", "Unknown"}
    /\ Len(board) < BoardSize

\* A hand of some Range player shares a card with a hand of another Range
\* player or with a known card of an Exact or Partial player: a draw that
\* can collide.
RangeClash ==
    \E i \in 1..Len(specs) :
        /\ specs[i].kind = "Range"
        /\ \E k \in 1..Len(specs[i].range) :
               \/ HandCards(specs[i].range[k]) \cap KnownCards(specs) # {}
               \/ \E j \in 1..Len(specs) :
                      /\ j # i /\ specs[j].kind = "Range"
                      /\ \E m \in 1..Len(specs[j].range) :
                             HandCards(specs[i].range[k])
                                 \cap HandCards(specs[j].range[m]) # {}

\* The deck cannot fill every hand and the board.
CardsShort == Len(board) + 2 * Len(specs) + (BoardSize - Len(board)) > DeckSize

\* The step of the sampling loop that abandons an iteration.
AbandonStep == pc = "mc" /\ pc' = "mc" /\ iter' = iter + 1

EstimateSampling == api = "estimate" /\ path = "estimate" /\ pc = "mc"

\* The cursor movement the kind of a player calls for.
KindAdvance(kind) ==
    CASE kind = "Partial" -> 1 [] kind = "Unknown" -> 2 [] OTHER -> 0

\* C26: in the second pass the cursor moves by 0 for an Exact or Range
\* player, 1 for a Partial player, 2 for an Unknown player and then 1 for
\* each missing board card; every index read is below the length of the
\* available list; and the iteration is abandoned exactly when the list is
\* shorter than the hole and board slots to fill.
C26_CursorDiscipline ==
    EstimateSampling =>
        LET used == SeqToSet(board) \cup KnownCards(specs)
            placeholder == <<>> \o [i \in 1..Len(specs) |-> <<all_cards[1], all_cards[1]>>]
            need == NonRangeSlots(specs, board)
            missing == BoardSize - Len(board)
        IN \A f \in FirstPass(specs, 1, used, placeholder) :
               f.found =>
                   LET pool == Cards \ f.used
                       len == Cardinality(pool)
                       w == second_pass_reads(specs, 1, 0, len, {}, <<>>)
                       wb == board_reads(w, missing, len)
                   IN /\ \A i \in wb.reads : i >= 0 /\ i < len
                      /\ \A i \in 1..Len(w.advances) :
                             w.advances[i] = KindAdvance(specs[i].kind)
                      /\ w.valid => w.cursor = need - missing
                      /\ wb.valid => wb.cursor = need /\ wb.reads = 0..(need - 1)
                      /\ wb.valid <=> need <= len
                      /\ \A a \in Arrangements(pool, Min(need, len)) :
                             LET s == SecondPass(specs, 1, 0, a, len, f.hole_cards)
                                 o == CompleteBoard(board, s, a, len)
                             IN /\ s.valid = w.valid
                                /\ s.cursor = w.cursor
                                /\ o.valid = wb.valid
                                /\ o.valid =>
                                       Len(o.deal.board) = BoardSize
                                       /\ SubSeq(o.deal.board, Len(board) + 1, BoardSize)
                                              = SubSeq(a, w.cursor + 1, need)

\* A Partial and an Unknown player are dealt with from the shuffled cards.
C26_Witness ==
    /\ api = "estimate" /\ path = "estimate" /\ pc = "evaluate"
    /\ \E i \in 1..Len(specs) : specs[i].kind = "Partial"
    /\ \E i \in 1..Len(specs) : specs[i].kind = "Unknown"

\* The board takes the cards after the hole cards.
C26_WitnessBoard ==
    /\ api = "estimate" /\ path = "estimate" /\ pc = "evaluate"
    /\ \E i \in 1..Len(specs) : specs[i].kind = "Partial"
    /\ Len(board) < BoardSize

\* The cards run out while the board is completed: no iteration is counted.
C26_WitnessShort ==
    /\ api = "estimate" /\ path = "estimate" /\ pc = "done"
    /\ CardsShort /\ ~RangeClash
    /\ iter = 2 /\ samples = 0
    /\ ~result.ok

\* The position of a card in a slice of distinct cards (0 when absent).
SlicePosition(cards, c) ==
    IF \E p \in 1..Len(cards) : cards[p] = c
    THEN CHOOSE p \in 1..Len(cards) : cards[p] = c
    ELSE 0

\* One callback argument: k cards at strictly increasing positions of cards.
AtIncreasingPositions(cards, k, slice) ==
    /\ Len(slice) = k
    /\ \A m \in 1..k : SlicePosition(cards, slice[m]) > 0
    /\ \A m \in 1..(k - 1) :
           SlicePosition(cards, slice[m]) < SlicePosition(cards, slice[m + 1])

CombinationsDone == api = "combinations" /\ pc = "done"

\* C27: for_each_combination over n distinct cards and size k calls the
\* callback C(n, k) times, each time with k cards at strictly increasing
\* positions, never the same subset twice; once with the empty slice for
\* k = 0, never for k > n; the recursive and the index-advancing function
\* make the same calls in the same order.
C27_CombinationsComplete ==
    CombinationsDone =>
        LET out == result.recursive
            n == Len(board)
            k == budget
        IN /\ Len(out) = Binomial(n, k)
           /\ \A j \in 1..Len(out) : AtIncreasingPositions(board, k, out[j])
           /\ \A i \in 1..Len(out) : \A j \in (i + 1)..Len(out) :
                  SeqToSet(out[i]) # SeqToSet(out[j])
           /\ k = 0 => out = << <<>> >>
           /\ k > n => out = <<>>
           /\ result.indexed = out

\* Two cards are chosen out of four or more: six calls at least.
C27_Witness ==
    /\ CombinationsDone
    /\ Len(board) >= 4 /\ budget = 2
    /\ Len(result.recursive) >= 6
    /\ Len(result.indexed) >= 6

\* The two corner cases: no card is chosen, and more cards than there are.
C27_WitnessEmpty ==
    CombinationsDone /\ Len(board) >= 1 /\ budget = 0 /\ Len(result.indexed) = 1

C27_WitnessTooMany ==
    CombinationsDone /\ budget > Len(board) /\ result.recursive = <<>>

SameNumber(x, y) == \A j \in Limbs : x[j] = y[j]

BinomialsDone == api = "binomial" /\ pc = "done"

\* A pass of the loops of the helpers.
BinomialPass == api = "binomial" /\ pc = "loop" /\ iter' = iter + 1

InFullDeck == count <= FullDeck /\ budget <= FullDeck

\* The pass took the accumulator from C(n, i) to C(n, i + 1) without loss:
\* new * (i + 1) = old * (n - i) in 128-bit arithmetic.
ExactPass(old, new) == SameNumber(WideMul(new, iter + 1), WideMul(old, count - iter))

\* C28: for 0 <= n <= 52 and 0 <= k <= 52 both helpers return C(n, k) (0 for
\* k > n, 1 for k = 0 and k = n): every pass of their loops divides exactly
\* and no product saturates or is clamped; for any n combination_count never
\* leaves the range of usize and returns usize::MAX once it would.
C28_BinomialsExact ==
    [][/\ BinomialPass /\ InFullDeck =>
              /\ ~result'.n_choose_k.saturated
              /\ ~result'.n_choose_k.inexact
              /\ ExactPass(result.n_choose_k.value, result'.n_choose_k.value)
              /\ ~result'.combination_count.saturated
              /\ ~result'.combination_count.inexact
              /\ ExactPass(result.combination_count.value,
                           result'.combination_count.value)
       /\ BinomialPass =>
              /\ FitsIn(result'.combination_count.value, UsizeBits(path))
              /\ result'.combination_count.saturated =>
                     SameNumber(result'.combination_count.value,
                                WideMax(UsizeBits(path)))
       /\ pc = "call" /\ api = "binomial" =>
              /\ budget > count =>
                     pc' = "done" /\ SameNumber(result'.n_choose_k.value, Wide(0))
                     /\ SameNumber(result'.combination_count.value, Wide(0))
              /\ budget = 0 \/ budget = count =>
                     pc' = "done" /\ SameNumber(result'.n_choose_k.value, Wide(1))
                     /\ SameNumber(result'.combination_count.value, Wide(1))
       /\ pc' = "done" /\ api = "binomial" /\ count <= DeckSize =>
              /\ SameNumber(result'.n_choose_k.value, Wide(Binomial(count, budget)))
              /\ SameNumber(result'.combination_count.value,
                            Wide(Binomial(count, budget)))]_vars

\* The same on the 64-bit target alone, where it holds.
C28_ExactOnNative ==
    [][path = "native64" =>
          /\ BinomialPass /\ InFullDeck =>
                 /\ ~result'.n_choose_k.saturated
                 /\ ~result'.n_choose_k.inexact
                 /\ ExactPass(result.n_choose_k.value, result'.n_choose_k.value)
                 /\ ~result'.combination_count.saturated
                 /\ ~result'.combination_count.inexact
                 /\ ExactPass(result.combination_count.value,
                              result'.combination_count.value)
          /\ BinomialPass =>
                 /\ FitsIn(result'.combination_count.value, UsizeBits(path))
                 /\ result'.combination_count.saturated =>
                        SameNumber(result'.combination_count.value,
                                   WideMax(UsizeBits(path)))
          /\ pc' = "done" /\ api = "binomial" /\ count <= DeckSize =>
                 /\ SameNumber(result'.n_choose_k.value, Wide(Binomial(count, budget)))
                 /\ SameNumber(result'.combination_count.value,
                               Wide(Binomial(count, budget)))]_vars

\* combination_count is C(n, k) clamped on both targets: every pass is exact
\* until the value leaves the range of usize, and usize::MAX from then on.
C28_CombinationCountClamps ==
    [][BinomialPass =>
          /\ ~result'.combination_count.inexact
          /\ FitsIn(result'.combination_count.value, UsizeBits(path))
          /\ ~result'.combination_count.saturated =>
                 ExactPass(result.combination_count.value,
                           result'.combination_count.value)
          /\ result'.combination_count.saturated =>
                 SameNumber(result'.combination_count.value,
                            WideMax(UsizeBits(path)))]_vars

\* C(52, 5) = 2 598 960 on the 64-bit target.
C28_WitnessNative ==
    /\ BinomialsDone /\ path = "native64"
    /\ count = FullDeck /\ budget = 5
    /\ SameNumber(result.n_choose_k.value, Wide(2598960))

\* C(52, 26) = 495 918 532 948 104 on the 64-bit target, in 16-bit limbs.
C28_WitnessMiddle ==
    /\ BinomialsDone /\ path = "native64"
    /\ count = FullDeck /\ budget = 26
    /\ ~result.n_choose_k.saturated
    /\ result.n_choose_k.value = result.combination_count.value

\* combination_count is clamped on the 64-bit target: C(70, 35) > 2^64.
C28_WitnessClamped ==
    /\ BinomialsDone /\ path = "native64"
    /\ result.combination_count.saturated
    /\ SameNumber(result.combination_count.value, WideMax(64))

\* n_choose_k saturates inside the deck on the 32-bit target.
C28_WitnessSaturated32 ==
    /\ BinomialsDone /\ path = "wasm32"
    /\ InFullDeck
    /\ result.n_choose_k.saturated

\* A sampling loop is running or has ended.
Sampling == path # "" /\ Len(wins) = Len(specs) /\ (pc \in {"mc", "evaluate"} \/ iter > 0)

\* C29: after any number of evaluated deals, samples <= sum of the win
\* counters <= N * samples, so the sum is 0 only when no deal was evaluated,
\* and a sampling loop that counted a sample reports the counters divided by
\* their sum, never the uniform 100 / N of the fallback.
C29_WinCreditsBounded ==
    LET N == Len(specs)
    IN /\ Sampling =>
              /\ samples = evaluated
              /\ samples <= SumSeq(wins)
              /\ SumSeq(wins) <= N * samples
              /\ SumSeq(wins) = 0 <=> samples = 0
       /\ pc = "done" /\ api \in {"estimate", "hands"} /\ result.ok
          /\ Len(wins) = N =>
              /\ evaluated <= SumSeq(wins)
              /\ SumSeq(wins) <= N * evaluated
       /\ pc = "done" /\ Sampling /\ result.ok /\ path # "ranges" =>
              /\ samples > 0
              /\ \A i \in 1..N :
                     result.equities[i] = Rat(100 * wins[i], SumSeq(wins))

\* Two samples were counted, one of them a tie of all players, and the
\* result is not the uniform one.
C29_Witness ==
    /\ pc = "done" /\ Sampling /\ result.ok /\ path # "ranges"
    /\ samples = 2
    /\ SumSeq(wins) > samples
    /\ \E i \in 1..Len(specs) : result.equities[i] # Rat(100, Len(specs))

\* The deals estimate_equity_exact_enumeration evaluates for the parsed
\* input, and the deals one iteration of estimate_equity_monte_carlo can
\* count.
EstimateExactDeals ==
    LET fixed_known == SeqToSet(board) \cup KnownCards(specs)
        ds == estimate_equity_exact_enumeration(specs, board, fixed_known)
    IN {Canon(ds[j]) : j \in 1..Len(ds)}

EstimateSampledDeals ==
    {Canon(o.deal) : o \in {x \in estimate_equity_monte_carlo(specs, board) : x.valid}}

\* C30: for the same parsed input the deals a counted Monte Carlo iteration
\* can produce are the deals the exact engine enumerates.
C30_SampledDealsAreEnumeratedDeals ==
    /\ EstimateSampling => EstimateSampledDeals = EstimateExactDeals
    /\ EstimateDealt => Canon(deals[1]) \in EstimateExactDeals

\* What holds: every deal the exact engine enumerates is one the sampler can
\* produce.
C30_EnumeratedDealsCanBeSampled ==
    EstimateSampling => EstimateExactDeals \subseteq EstimateSampledDeals

====
